---------------------------- MODULE Spec2Model ----------------------------
(***************************************************************************)
(* hadron: a build-time compiler that lowers a graph of component          *)
(* instances into continuation-passing JavaScript.                         *)
(*                                                                         *)
(* The model follows the latest revision of the compiler (the file with    *)
(* join synthesis, src/unnamed/part_001): generate() binds every use-site  *)
(* of the graph, resolve_acts() schedules every registered action as a     *)
(* root, a queued continuation or a synthesized join, emit_code() renders  *)
(* the line sequence and write() stores it in out.js.  The emitted program *)
(* is then run under a single-threaded, callback-based event loop in which *)
(* pending callbacks complete in any order.                                *)
(***************************************************************************)
EXTENDS Integers, Sequences, FiniteSets, TLC

VARIABLES
  ast,    \* the graph description handed to generate(): a sequence of use-sites
  pc,     \* position of the compiler process / of the emitted program
  ix,     \* index of the loop generate / resolve_acts / emit_code is in
  tpl,    \* the TemplateContext and every object reachable from it
  file,   \* contents of out.js (a sequence of lines), <<>> while not written
  rt      \* state of the emitted program while it runs

vars == <<ast, pc, ix, tpl, file, rt>>

----------------------------------------------------------------------------
(* Bounds of the model.                                                    *)

\* Width of the widest join: the number of inputs of the n-ary concatenation
\* component that the graphs below register next to the library.
MaxJoin == 3

----------------------------------------------------------------------------
(* Values produced by the parser helpers text(), ref() and use().          *)

\* new Literal(type, value); jstype is the JavaScript typeof of the value,
\* which decides how JSON.stringify prints it.
Literal(type, jstype, value) ==
  [is |-> "literal", mode |-> "const", type |-> type, jstype |-> jstype,
   value |-> value, path |-> <<>>]

text(str) == Literal("text", "string", str)

\* new Reference(name): the dotted name is held as the list of its segments,
\* i.e. as the value of name.split('.').
ref(path) ==
  [is |-> "ref", mode |-> "resolvable", type |-> "", jstype |-> "",
   value |-> "", path |-> path]

use(is, id, args) == [is |-> is, id |-> id, args |-> args]

NoArgs == [x \in {} |-> text("")]

\* End-points a resolution can return besides a Literal.
SlotRef(k) == [is |-> "slot", id |-> k]
InstRef(i) == [is |-> "instance", id |-> i]
Null == [is |-> "null", id |-> 0]

\* libs: the table of known libraries.
libs == [fs |-> "fs"]

\* libs is an object literal: besides its own key it answers for the
\* properties it inherits from Object.prototype, each of them a function
\* (these six among others).
ObjectPrototype ==
  {"toString", "valueOf", "hasOwnProperty", "isPrototypeOf",
   "propertyIsEnumerable", "toLocaleString"}

\* libs[name] is truthy
LibsTruthy(name) == name \in DOMAIN libs \/ name \in ObjectPrototype

\* `${libs[name]}`: the path, or the text of an inherited function.
LibsText(name) ==
  IF name \in DOMAIN libs THEN libs[name]
  ELSE IF name \in ObjectPrototype
       THEN "function " \o name \o "() { [native code] }"
  ELSE "undefined"

----------------------------------------------------------------------------
(* Component definitions.  A definition is the sequence of calls it makes  *)
(* on its InstanceContext; the body of an action is the sequence of calls  *)
(* its emit callback makes on its EmitContext.                             *)

Imports(name) == [call |-> "imports", name |-> name]
Input(name, type) ==
  [call |-> "input", name |-> name, type |-> type,
   def |-> [jstype |-> "undefined", value |-> ""]]
InputDef(name, type, jstype, value) ==
  [call |-> "input", name |-> name, type |-> type,
   def |-> [jstype |-> jstype, value |-> value]]
Output(name, type) == [call |-> "output", name |-> name, type |-> type]
PrivSlot(name, type) == [call |-> "slot", name |-> name, type |-> type]
UidCall(name) == [call |-> "uid", name |-> name]
ActionCall(wait, body) == [call |-> "action", wait |-> wait, body |-> body]

\* Pieces of a template string.
Txt(s) == [t |-> "txt", s |-> s]         \* literal text
Str(b) == [t |-> "string", s |-> b]      \* es.string(<input b>)
Sym(o) == [t |-> "slot", s |-> o]        \* <output o>.slot
Lib(l) == [t |-> "import", s |-> l]      \* the symbol cs.imports(l) returned
Loc(u) == [t |-> "uid", s |-> u]         \* the symbol cs.uid(u) returned
AsBool(b) == [t |-> "asBool", s |-> b]   \* <input b>.resolve().asBool()

\* es.emit(template).  k says what the line does when the emitted program
\* runs, out names the output whose symbol the line introduces.
Emit(k, out, parts) ==
  [op |-> "emit", k |-> k, out |-> out, parts |-> parts, indent |-> ""]
\* es.emit_triggered(<output out>, indent)
Trigger(out, indent) ==
  [op |-> "emit_triggered", k |-> "", out |-> out, parts |-> <<>>,
   indent |-> indent]

\* An expression of the emit callback that calls es.string() and emits
\* nothing.
Eval(parts) ==
  [op |-> "eval", k |-> "", out |-> "", parts |-> parts, indent |-> ""]

ThrowErr == Emit("stmt", "", <<Txt("  if (err) throw err;")>>)

ReadText ==
  << Imports("fs"), Input("filename", "text"), Output("out", "text"),
     ActionCall(<<"filename">>,
       << Emit("async", "out",
            <<Lib("fs"), Txt(".readFile("), Str("filename"),
              Txt(", 'utf8', function (err, "), Sym("out"), Txt(") {")>>),
          ThrowErr,
          Trigger("out", "  "),
          Emit("end", "", <<Txt("});")>>) >>) >>

WriteText ==
  << Imports("fs"), Input("filename", "text"), Input("in", "text"),
     ActionCall(<<"filename", "in">>,
       << Emit("async", "",
            <<Lib("fs"), Txt(".writeFile("), Str("filename"), Txt(", "),
              Str("in"), Txt(", 'utf8', function (err) {")>>),
          ThrowErr,
          Emit("end", "", <<Txt("});")>>) >>) >>

ConcatText ==
  << Input("left", "text"), Input("right", "text"), Output("out", "text"),
     ActionCall(<<"left", "right">>,
       << Eval(<<Str("left"), Str("right")>>),
          Emit("const", "out",
            <<Txt("const "), Sym("out"), Txt(" = "), Str("left"),
              Txt(" + "), Str("right"), Txt(";")>>),
          Trigger("out", "") >>) >>

LogText ==
  << Input("in", "text"),
     ActionCall(<<"in">>,
       << Emit("stmt", "",
            <<Txt("console.log("), Str("in"), Txt(");")>>) >>) >>

ParseJSON ==
  << Input("in", "text"), Output("out", "json"),
     ActionCall(<<"in">>,
       << Emit("const", "out",
            <<Txt("const "), Sym("out"), Txt(" = JSON.parse("), Str("in"),
              Txt(");")>>),
          Trigger("out", "") >>) >>

EncodeJSON ==
  << Input("in", "json"), Output("out", "text"),
     ActionCall(<<"in">>,
       << Emit("const", "out",
            <<Txt("const "), Sym("out"), Txt(" = JSON.stringify("),
              Str("in"), Txt(");")>>),
          Trigger("out", "") >>) >>

LoadImage ==
  << Input("src", "text"), Output("element", "DOM:Element:Image"),
     Output("width", "number"), Output("height", "number"),
     ActionCall(<<"src">>,
       << Emit("stmt", "element",
            <<Txt("var "), Sym("element"), Txt(" = new Image;")>>),
          Emit("async", "",
            <<Sym("element"), Txt(".onload = function () {")>>),
          Trigger("element", "  "),
          Trigger("width", "  "),
          Trigger("height", "  "),
          Emit("end", "", <<Txt("};")>>),
          Emit("stmt", "",
            <<Sym("element"), Txt(".src = "), Str("src"), Txt(";")>>) >>) >>

\* The body of WebGLCanvas is one es.emit() of a multi-line template; the
\* model keeps the interpolations of symbols and of asBool(), in order, and
\* shortens the fixed text between them.  The whenTrue() and whenFalse()
\* interpolations of the outputs all return '' and add nothing to the text.
WebGLCanvas ==
  << InputDef("alpha", "boolean", "boolean", "false"),
     InputDef("depth", "boolean", "boolean", "false"),
     InputDef("stencil", "boolean", "boolean", "false"),
     InputDef("antialias", "boolean", "boolean", "false"),
     InputDef("preserveDrawingBuffer", "boolean", "boolean", "false"),
     Output("element", "DOM:Element:Canvas"),
     Output("context", "DOM:WebGL:Context.v1"),
     Output("performanceCaveat", "signal"),
     Output("noWebGL", "signal"),
     Output("initialized", "signal"),
     PrivSlot("sizeDirty", "boolean"),
     UidCall("initWebGL"),
     UidCall("destWebGL"),
     ActionCall(<<>>,
       << Emit("stmt", "element",
            <<Txt("var "), Sym("sizeDirty"), Txt(" = true; var "),
              Sym("context"), Txt(" = null; var "), Sym("element"),
              Txt(" = document.createElement('canvas'); "),
              Loc("destWebGL"), Txt("(); "), Loc("initWebGL"),
              Txt("(); function "), Loc("initWebGL"),
              Txt("() { var glopts = { alpha: "), AsBool("alpha"),
              Txt(", depth: "), AsBool("depth"),
              Txt(", stencil: "), AsBool("stencil"),
              Txt(", antialias: "), AsBool("antialias"),
              Txt(", preserveDrawingBuffer: "),
              AsBool("preserveDrawingBuffer"),
              Txt(" }; } function "), Loc("destWebGL"), Txt("() { "),
              Sym("context"), Txt(" = null; }")>>) >>) >>

\* An n-ary concatenation with inputs in1 .. inN: ConcatText widened to
\* MaxJoin inputs, registered by the graphs that exercise joins wider than
\* the library's two-input components.
InName(i) == "in" \o ToString(i)

RECURSIVE SumParts(_)
SumParts(i) ==
  IF i = 0 THEN <<>>
  ELSE SumParts(i - 1) \o (IF i = 1 THEN <<>> ELSE <<Txt(" + ")>>)
         \o <<Str(InName(i))>>

ConcatN ==
  [i \in 1..MaxJoin |-> Input(InName(i), "text")]
  \o << Output("out", "text"),
        ActionCall([i \in 1..MaxJoin |-> InName(i)],
          << Emit("const", "out",
               <<Txt("const "), Sym("out"), Txt(" = ")>>
               \o SumParts(MaxJoin) \o <<Txt(";")>>),
             Trigger("out", "") >>) >>

\* The input declarations of DOMCanvas.  DOMCanvas itself is not exported
\* and goes on to call methods an InstanceContext does not have.
DOMCanvasInputs ==
  << InputDef("width", "integer", "number", "100"),
     InputDef("height", "integer", "number", "100"),
     InputDef("autoSize", "boolean", "boolean", "false"),
     InputDef("animate", "boolean", "boolean", "false") >>

\* A component with the inputs of DOMCanvas and one action that waits on
\* them and reads them.
SizedBox ==
  DOMCanvasInputs
  \o << ActionCall(<<"width", "height", "autoSize", "animate">>,
          << Emit("stmt", "",
               <<Txt("resize("), Str("width"), Txt(", "), Str("height"),
                 Txt(", "), AsBool("autoSize"), Txt(", "), AsBool("animate"),
                 Txt(");")>>) >>) >>

\* LogText with a default for its input.
LogDefault ==
  << InputDef("in", "text", "string", "nothing"),
     ActionCall(<<"in">>,
       << Emit("stmt", "",
            <<Txt("console.log("), Str("in"), Txt(");")>>) >>) >>

\* A component that imports a library the table libs does not know.
Fetch ==
  << Imports("http"), Input("url", "text"), Output("out", "text"),
     ActionCall(<<"url">>,
       << Emit("async", "out",
            <<Lib("http"), Txt(".get("), Str("url"), Txt(", function ("),
              Sym("out"), Txt(") {")>>),
          Trigger("out", "  "),
          Emit("end", "", <<Txt("});")>>) >>) >>

\* A component that imports under a name libs inherits.
Stringer ==
  << Imports("toString"), Input("in", "text"),
     ActionCall(<<"in">>,
       << Emit("stmt", "",
            <<Lib("toString"), Txt(".call("), Str("in"), Txt(");")>>) >>) >>

\* A producer like ReadText whose base names are symbols uid() hands out to
\* others: its output is named out_1, its private slot counter_1, and it
\* asks for private symbols under the names out, actor_1 and fs_1.
Shadow ==
  << Imports("fs"), Input("filename", "text"), UidCall("out"),
     Output("out_1", "text"), PrivSlot("counter_1", "text"),
     UidCall("actor_1"), UidCall("fs_1"),
     ActionCall(<<"filename">>,
       << Emit("async", "out_1",
            <<Lib("fs"), Txt(".readFile("), Str("filename"),
              Txt(", 'utf8', function (err, "), Sym("out_1"), Txt(") {")>>),
          Trigger("out_1", "  "),
          Emit("end", "", <<Txt("});")>>) >>) >>

\* The registry: require('./components') plus ConcatN, SizedBox, LogDefault,
\* Fetch, Stringer and Shadow.
Kinds ==
  {"ReadText", "WriteText", "LogText", "ParseJSON", "EncodeJSON",
   "ConcatText", "LoadImage", "WebGLCanvas", "ConcatN", "SizedBox",
   "LogDefault", "Fetch", "Stringer", "Shadow"}

components(is) ==
  CASE is = "ReadText" -> ReadText
    [] is = "WriteText" -> WriteText
    [] is = "LogText" -> LogText
    [] is = "ParseJSON" -> ParseJSON
    [] is = "EncodeJSON" -> EncodeJSON
    [] is = "ConcatText" -> ConcatText
    [] is = "LoadImage" -> LoadImage
    [] is = "WebGLCanvas" -> WebGLCanvas
    [] is = "ConcatN" -> ConcatN
    [] is = "SizedBox" -> SizedBox
    [] is = "LogDefault" -> LogDefault
    [] is = "Fetch" -> Fetch
    [] is = "Stringer" -> Stringer
    [] is = "Shadow" -> Shadow
    [] OTHER -> <<>>


----------------------------------------------------------------------------
(* Maps (JavaScript Map and plain objects) as functions on a finite domain. *)

EmptyMap == <<>>
Range(q) == {q[i] : i \in DOMAIN q}
Has(m, k) == k \in DOMAIN m
Get(m, k, dflt) == IF k \in DOMAIN m THEN m[k] ELSE dflt
Put(m, k, v) == [x \in (DOMAIN m) \cup {k} |-> IF x = k THEN v ELSE m[x]]

\* error(msg) prints and calls process.exit(1); an uncaught exception ends
\* the process as well.  Either way nothing runs afterwards: every operation
\* below leaves a template whose err is set untouched.
Fail(t, code) == IF t.err = "none" THEN [t EXCEPT !.err = code] ELSE t
Ok(t) == t.err = "none"

----------------------------------------------------------------------------
(* TemplateContext                                                         *)

\* constructor(name)
NewTemplateContext(name) ==
  [name |-> name, imports |-> <<>>, uidMap |-> EmptyMap, bound |-> EmptyMap,
   lines |-> <<>>, bindings |-> <<>>, acts |-> <<>>, roots |-> <<>>,
   insts |-> <<>>, slots |-> <<>>, actions |-> <<>>, err |-> "none"]

\* (mutant) uid() without uidMap.set(name, n).
UidBumpForgets(t, name) == t

\* uid(name): the symbol it returns ...
UidSym(t, name) == name \o "_" \o ToString(Get(t.uidMap, name, 0) + 1)
\* ... and the counter it advances.
UidBump(t, name) ==
  [t EXCEPT !.uidMap = Put(@, name, Get(t.uidMap, name, 0) + 1)]

\* new ValueSlot(name, type, slot, inst)
ValueSlot(name, type, slot, inst) ==
  [is |-> "slot", mode |-> "once", type |-> type, slot |-> slot,
   queued |-> <<>>, field |-> name, inst |-> inst]

\* new Action(deps, emit, inst) as registered by a component.
Action(deps, emit, inst) ==
  [is |-> "action", kind |-> "user", wait |-> deps, body |-> emit,
   inst |-> inst, needs |-> <<>>, of |-> 0, counterVar |-> "",
   actorVar |-> "", capture |-> "", need |-> 0, captureMap |-> EmptyMap]

\* (mutant) a missing argument without default is bound to an empty text.
BindingSourceLenient(args, name, def) ==
  LET given == IF Has(args, name) THEN args[name] ELSE Null
  IN IF given.is # "null" THEN given
     ELSE IF def.jstype \in {"undefined", "string"}
          THEN Literal("text", "string", def.value)
     ELSE Literal(def.jstype, def.jstype, def.value)

\* new Binding(name, type, inst, tpl, defaultValue): the source it binds to,
\* Null when the argument is missing and no default is given.
BindingSource(args, name, def) ==
  LET given == IF Has(args, name) THEN args[name] ELSE Null
  IN IF given.is # "null" THEN given
     ELSE IF def.jstype = "undefined" THEN Null
     ELSE IF def.jstype = "string" THEN Literal("text", "string", def.value)
     ELSE Literal(def.jstype, def.jstype, def.value)

\* calls and walks are bookkeeping of the model: how often resolve() was
\* called on the binding, and how often a call went on to resolve the source.
Binding(name, type, inst, to) ==
  [is |-> "binding", to |-> to, type |-> type, field |-> name,
   inst |-> inst, resolved |-> Null, calls |-> 0, walks |-> 0]

----------------------------------------------------------------------------
(* InstanceContext: the calls a component definition makes while it runs   *)
(* for use-site i.                                                         *)

\* new InstanceContext(tpl, args, where)
InstanceContext(is, id, args) ==
  [is |-> "instance", kind |-> is, id |-> id, where |-> is \o ":" \o id,
   args |-> args, fields |-> EmptyMap, inputs |-> EmptyMap,
   locals |-> EmptyMap, syms |-> EmptyMap]

ImportIndex(t, name) ==
  {k \in 1..Len(t.imports) : t.imports[k].lib = name}

\* cs.imports(name)
CsImports(t, i, name) ==
  IF ImportIndex(t, name) # {}
  THEN LET k == CHOOSE k \in ImportIndex(t, name) : TRUE
       IN [t EXCEPT !.insts[i].syms = Put(@, name, t.imports[k].sym)]
  ELSE IF ~LibsTruthy(name) THEN Fail(t, "unknown-import")
  ELSE LET sym == UidSym(t, name)
           t1 == UidBump(t, name)
       IN [t1 EXCEPT !.imports = Append(@, [lib |-> name, sym |-> sym]),
                     !.insts[i].syms = Put(@, name, sym)]

\* cs.uid(name)
CsUid(t, i, name) ==
  LET sym == UidSym(t, name)
      t1 == UidBump(t, name)
  IN [t1 EXCEPT !.insts[i].syms = Put(@, name, sym)]

\* (mutant) cs.slot() registers the slot as a field, as cs.output() does.
CsSlotPublic(t, i, name, type) ==
  LET sym == UidSym(t, name)
      t1 == UidBump(t, name)
      k == Len(t.slots) + 1
  IN [t1 EXCEPT !.slots = Append(@, ValueSlot(name, type, sym, i)),
                !.insts[i].fields = Put(@, name, k),
                !.insts[i].locals = Put(@, name, k)]

\* cs.slot(name, type): a private slot, kept out of the field map.
CsSlot(t, i, name, type) ==
  LET sym == UidSym(t, name)
      t1 == UidBump(t, name)
      k == Len(t.slots) + 1
  IN [t1 EXCEPT !.slots = Append(@, ValueSlot(name, type, sym, i)),
                !.insts[i].locals = Put(@, name, k)]

\* cs.output(name, type)
CsOutput(t, i, name, type) ==
  LET sym == UidSym(t, name)
      t1 == UidBump(t, name)
      k == Len(t.slots) + 1
  IN [t1 EXCEPT !.slots = Append(@, ValueSlot(name, type, sym, i)),
                !.insts[i].fields = Put(@, name, k),
                !.insts[i].locals = Put(@, name, k)]

\* cs.input(name, type, defaultValue) -> tpl.bind_to -> new Binding
CsInput(t, i, name, type, def) ==
  LET to == BindingSource(t.insts[i].args, name, def)
      k == Len(t.bindings) + 1
  IN IF to.is = "null" THEN Fail(t, "missing-field")
     ELSE [t EXCEPT !.bindings = Append(@, Binding(name, type, i, to)),
                    !.insts[i].inputs = Put(@, name, k)]

\* cs.action(deps, emit)
CsAction(t, i, wait, body) ==
  LET deps == [n \in 1..Len(wait) |-> t.insts[i].inputs[wait[n]]]
      k == Len(t.actions) + 1
  IN [t EXCEPT !.actions = Append(@, Action(deps, body, i)),
               !.acts = Append(@, k)]

CsCall(t, i, c) ==
  CASE c.call = "imports" -> CsImports(t, i, c.name)
    [] c.call = "input" -> CsInput(t, i, c.name, c.type, c.def)
    [] c.call = "output" -> CsOutput(t, i, c.name, c.type)
    [] c.call = "slot" -> CsSlot(t, i, c.name, c.type)
    [] c.call = "uid" -> CsUid(t, i, c.name)
    [] c.call = "action" -> CsAction(t, i, c.wait, c.body)

\* defn(cs): the calls of the definition from the k-th on, stopping at the
\* first one that fails.
RECURSIVE RunDefn(_, _, _, _)
RunDefn(t, i, calls, k) ==
  IF k > Len(calls) \/ ~Ok(t) THEN t
  ELSE RunDefn(CsCall(t, i, calls[k]), i, calls, k + 1)

\* (mutant) bind_inst without the check: the later instance takes the id.
bind_instReplaces(t, id, i) == [t EXCEPT !.bound = Put(@, id, i)]

\* bind_inst(id, inst)
bind_inst(t, id, i) ==
  IF Has(t.bound, id) THEN Fail(t, "duplicate-id")
  ELSE [t EXCEPT !.bound = Put(@, id, i)]

\* One iteration of the loop of generate() over the use-sites.
GenerateItem(t, item) ==
  IF item.is \notin Kinds THEN Fail(t, "missing-definition")
  ELSE LET i == Len(t.insts) + 1
           t1 == [t EXCEPT !.insts =
                    Append(@, InstanceContext(item.is, item.id, item.args))]
           t2 == bind_inst(t1, item.id, i)
       IN RunDefn(t2, i, components(item.is), 1)

----------------------------------------------------------------------------
(* Resolution of references and bindings.                                  *)

\* ref.type and ref.mode of an end-point (undefined on an InstanceContext).
EpType(t, r) ==
  CASE r.is = "literal" -> r.type
    [] r.is = "slot" -> t.slots[r.id].type
    [] OTHER -> "undefined"

EpMode(t, r) ==
  CASE r.is = "literal" -> r.mode
    [] r.is = "slot" -> t.slots[r.id].mode
    [] OTHER -> "undefined"

\* The loop of resolve_path over path[i..]: inst is the object reached so far.
RECURSIVE PathWalk(_, _, _, _)
PathWalk(t, inst, path, i) ==
  IF i > Len(path) THEN [err |-> "none", ref |-> inst]
  ELSE IF inst.is # "instance" THEN [err |-> "no-fields", ref |-> Null]
  ELSE IF ~Has(t.insts[inst.id].fields, path[i])
       THEN [err |-> "no-such-field", ref |-> Null]
  ELSE \* got.resolve() of a ValueSlot is the slot itself
       PathWalk(t, SlotRef(t.insts[inst.id].fields[path[i]]), path, i + 1)

\* resolve_path(path): null for an empty path and for an unbound first
\* segment.
resolve_path(t, path) ==
  IF Len(path) = 0 THEN [err |-> "none", ref |-> Null]
  ELSE IF ~Has(t.bound, path[1]) THEN [err |-> "none", ref |-> Null]
  ELSE PathWalk(t, InstRef(t.bound[path[1]]), path, 2)

\* this.to.resolve(this.tpl): Literal.resolve or Reference.resolve.
SourceResolve(t, to) ==
  IF to.is = "literal" THEN [err |-> "none", ref |-> to]
  ELSE resolve_path(t, to.path)

\* (mutant) Binding.resolve without the comparison of the types.
BindingCheckNullOnly(t, type, r) ==
  IF r.is = "null" THEN "TypeError" ELSE "none"

\* The type check of Binding.resolve: the error it raises for the end-point
\* the source resolved to, "none" when the end-point is accepted.  Reading
\* .type of null throws a TypeError.
BindingCheck(t, type, r) ==
  IF r.is = "null" THEN "TypeError"
  ELSE IF EpType(t, r) # type THEN "type-mismatch"
  ELSE "none"

\* (mutant) Binding.resolve without the memo: every call resolves the source.
BindingResolveNoMemo(t, b) ==
  IF ~Ok(t) THEN [tpl |-> t, ref |-> Null]
  ELSE LET t1 == [t EXCEPT !.bindings[b].calls = @ + 1,
                           !.bindings[b].walks = @ + 1]
           r == SourceResolve(t, t.bindings[b].to)
           c == IF r.err # "none" THEN r.err
                ELSE BindingCheck(t, t.bindings[b].type, r.ref)
       IN IF c # "none" THEN [tpl |-> Fail(t1, c), ref |-> Null]
          ELSE [tpl |-> [t1 EXCEPT !.bindings[b].resolved = r.ref],
                ref |-> r.ref]

\* Binding.resolve(): the template after the call and the value returned.
BindingResolve(t, b) ==
  IF ~Ok(t) THEN [tpl |-> t, ref |-> Null]
  ELSE IF t.bindings[b].resolved.is # "null"
       THEN [tpl |-> [t EXCEPT !.bindings[b].calls = @ + 1],
             ref |-> t.bindings[b].resolved]
  ELSE LET t1 == [t EXCEPT !.bindings[b].calls = @ + 1,
                           !.bindings[b].walks = @ + 1]
           r == SourceResolve(t, t.bindings[b].to)
           c == IF r.err # "none" THEN r.err
                ELSE BindingCheck(t, t.bindings[b].type, r.ref)
       IN IF c # "none" THEN [tpl |-> Fail(t1, c), ref |-> Null]
          ELSE [tpl |-> [t1 EXCEPT !.bindings[b].resolved = r.ref],
                ref |-> r.ref]

----------------------------------------------------------------------------
(* Lines of the generated program.  text is what the compiler pushes; the   *)
(* other fields record who pushed it and what the line does at run time:   *)
(*   by      the action whose emit callback pushed it (0: the template)    *)
(*   parent  the action whose emission triggered that callback (0: root)   *)
(*   depth   how many triggers / actor functions enclose the callback      *)
(*   k       "decl" | "import" | "blank" | "async" | "end" | "const" |     *)
(*           "stmt" | "fn" | "fnend" | "cap" | "decr"                      *)
(*   x, y, n the symbols and the number the line is about                  *)

Line(code, prefix, by, parent, depth, k, x, y, n) ==
  [text |-> code, prefix |-> prefix, by |-> by, parent |-> parent,
   depth |-> depth, k |-> k, x |-> x, y |-> y, n |-> n]

RECURSIVE Join(_, _)
Join(strs, sep) ==
  IF Len(strs) = 0 THEN ""
  ELSE IF Len(strs) = 1 THEN strs[1]
  ELSE strs[1] \o sep \o Join(Tail(strs), sep)

----------------------------------------------------------------------------
(* resolve_acts                                                            *)

\* (mutant) a dependency that is already among the needs is not collected
\* again.
RECURSIVE CollectNeedsDistinct(_, _, _, _)
CollectNeedsDistinct(t, wait, k, needs) ==
  IF k > Len(wait) \/ ~Ok(t) THEN [tpl |-> t, needs |-> needs]
  ELSE LET r == BindingResolve(t, wait[k])
       IN IF ~Ok(r.tpl) THEN [tpl |-> r.tpl, needs |-> needs]
          ELSE CollectNeedsDistinct(r.tpl, wait, k + 1,
                 IF EpMode(r.tpl, r.ref) # "const"
                      /\ r.ref.id \notin Range(needs)
                 THEN Append(needs, r.ref.id) ELSE needs)

\* The inner loop over act.wait[k..]: resolve each dependency and collect
\* the ones that are not 'const'.
RECURSIVE CollectNeeds(_, _, _, _)
CollectNeeds(t, wait, k, needs) ==
  IF k > Len(wait) \/ ~Ok(t) THEN [tpl |-> t, needs |-> needs]
  ELSE LET r == BindingResolve(t, wait[k])
       IN IF ~Ok(r.tpl) THEN [tpl |-> r.tpl, needs |-> needs]
          ELSE CollectNeeds(r.tpl, wait, k + 1,
                 IF EpMode(r.tpl, r.ref) # "const"
                 THEN Append(needs, r.ref.id) ELSE needs)

\* needs.map((ref) => tpl.uid(ref.slot))
RECURSIVE MapCaptures(_, _, _, _)
MapCaptures(t, needs, k, caps) ==
  IF k > Len(needs) THEN [tpl |-> t, caps |-> caps]
  ELSE LET name == t.slots[needs[k]].slot
       IN MapCaptures(UidBump(t, name), needs, k + 1,
                      Append(caps, UidSym(t, name)))

\* captureMap after captureMap.set(need.slot, captures[nid]) for nid < k
RECURSIVE CaptureMapOf(_, _, _, _)
CaptureMapOf(t, needs, caps, k) ==
  IF k = 0 THEN EmptyMap
  ELSE Put(CaptureMapOf(t, needs, caps, k - 1),
           t.slots[needs[k]].slot, caps[k])

\* The actor: new Action([], function (es) {...}, act.inst)
Actor(a, inst, actorVar, counterVar, captureMap) ==
  [is |-> "action", kind |-> "actor", wait |-> <<>>, body |-> <<>>,
   inst |-> inst, needs |-> <<>>, of |-> a, counterVar |-> counterVar,
   actorVar |-> actorVar, capture |-> "", need |-> 0,
   captureMap |-> captureMap]

\* A helper: new Action([need], function (es) {...}, act.inst)
DecrAct(a, inst, need, capture, counterVar, actorVar) ==
  [is |-> "action", kind |-> "decr", wait |-> <<>>, body |-> <<>>,
   inst |-> inst, needs |-> <<>>, of |-> a, counterVar |-> counterVar,
   actorVar |-> actorVar, capture |-> capture, need |-> need,
   captureMap |-> EmptyMap]

\* (mutant) every helper of a join assigns the first capture.
RECURSIVE QueueHelpersOneCapture(_, _, _, _, _, _, _)
QueueHelpersOneCapture(t, a, needs, caps, counterVar, actorVar, k) ==
  IF k > Len(needs) THEN t
  ELSE LET h == Len(t.actions) + 1
           d == DecrAct(a, t.actions[a].inst, needs[k], caps[1],
                        counterVar, actorVar)
       IN QueueHelpersOneCapture(
            [t EXCEPT !.actions = Append(@, d),
                      !.slots[needs[k]].queued = Append(@, h)],
            a, needs, caps, counterVar, actorVar, k + 1)

\* The loop over the needs of a join from the k-th on: queue a helper on
\* each need.
RECURSIVE QueueHelpers(_, _, _, _, _, _, _)
QueueHelpers(t, a, needs, caps, counterVar, actorVar, k) ==
  IF k > Len(needs) THEN t
  ELSE LET h == Len(t.actions) + 1
           d == DecrAct(a, t.actions[a].inst, needs[k], caps[k],
                        counterVar, actorVar)
       IN QueueHelpers(
            [t EXCEPT !.actions = Append(@, d),
                      !.slots[needs[k]].queued = Append(@, h)],
            a, needs, caps, counterVar, actorVar, k + 1)

\* (mutant) the counter starts one short of the number of needs.
DeclLineOneShort(counterVar, n, caps) ==
  Line("var " \o counterVar \o " = " \o ToString(n - 1) \o ", "
         \o Join(caps, ", ") \o ";",
       "", 0, 0, 0, "decl", counterVar, "", n - 1)

\* The first declaration line of a join.
DeclLine(counterVar, n, caps) ==
  Line("var " \o counterVar \o " = " \o ToString(n) \o ", "
         \o Join(caps, ", ") \o ";",
       "", 0, 0, 0, "decl", counterVar, "", n)

\* The branch of resolve_acts for an action with two or more needs.
ScheduleJoin(t, a, needs) ==
  LET counterVar == UidSym(t, "counter")
      t1 == UidBump(t, "counter")
      actorVar == UidSym(t1, "actor")
      t2 == UidBump(t1, "actor")
      mc == MapCaptures(t2, needs, 1, <<>>)
      t3 == mc.tpl
      caps == mc.caps
      t4 == [t3 EXCEPT !.lines =
               Append(@, DeclLine(counterVar, Len(needs), caps))]
      k == Len(t4.actions) + 1
      actor == Actor(a, t.actions[a].inst, actorVar, counterVar,
                     CaptureMapOf(t, needs, caps, Len(needs)))
      t5 == [t4 EXCEPT !.actions = Append(@, actor),
                       !.roots = Append(@, k)]
  IN QueueHelpers(t5, a, needs, caps, counterVar, actorVar, 1)

\* (mutant) an action with several needs is joined and, as if it had one
\* need only, queued against the first as well.
ScheduleFallsThrough(t, a, needs) ==
  IF Len(needs) = 0 THEN [t EXCEPT !.roots = Append(@, a)]
  ELSE IF Len(needs) = 1
       THEN [t EXCEPT !.slots[needs[1]].queued = Append(@, a)]
  ELSE [ScheduleJoin(t, a, needs) EXCEPT
          !.slots[needs[1]].queued = Append(@, a)]

\* (mutant) an action with one need goes to the front of the queue.
SchedulePrepends(t, a, needs) ==
  IF Len(needs) = 0 THEN [t EXCEPT !.roots = Append(@, a)]
  ELSE IF Len(needs) = 1
       THEN [t EXCEPT !.slots[needs[1]].queued = <<a>> \o @]
  ELSE ScheduleJoin(t, a, needs)

\* (mutant) an action without needs goes to the front of the roots.
ScheduleRootFirst(t, a, needs) ==
  IF Len(needs) = 0 THEN [t EXCEPT !.roots = <<a>> \o @]
  ELSE IF Len(needs) = 1
       THEN [t EXCEPT !.slots[needs[1]].queued = Append(@, a)]
  ELSE ScheduleJoin(t, a, needs)

\* (mutant) an action with one need is a root, like one with none.
ScheduleOneNeedIsRoot(t, a, needs) ==
  IF Len(needs) <= 1 THEN [t EXCEPT !.roots = Append(@, a)]
  ELSE ScheduleJoin(t, a, needs)

\* (mutant) every action is a root, whatever it needs.
ScheduleAllRoots(t, a, needs) == [t EXCEPT !.roots = Append(@, a)]

\* (mutant) an action with several needs is refused, as before joins
\* existed.
ScheduleRejectsJoins(t, a, needs) ==
  IF Len(needs) = 0 THEN [t EXCEPT !.roots = Append(@, a)]
  ELSE IF Len(needs) = 1
       THEN [t EXCEPT !.slots[needs[1]].queued = Append(@, a)]
  ELSE Fail(t, "multiple-dependencies")

\* The three branches on needs.length.
Schedule(t, a, needs) ==
  IF Len(needs) = 0 THEN [t EXCEPT !.roots = Append(@, a)]
  ELSE IF Len(needs) = 1
       THEN [t EXCEPT !.slots[needs[1]].queued = Append(@, a)]
  ELSE ScheduleJoin(t, a, needs)

\* One iteration of the loop of resolve_acts over this.acts.
ResolveAct(t, a) ==
  LET c == CollectNeeds(t, t.actions[a].wait, 1, <<>>)
  IN IF ~Ok(c.tpl) THEN c.tpl
     ELSE Schedule([c.tpl EXCEPT !.actions[a].needs = c.needs], a, c.needs)

----------------------------------------------------------------------------
(* EmitContext                                                             *)

\* new EmitContext(tpl, inst, prefix, captureMap); hasMap is FALSE when the
\* fourth argument is not passed.  parent and depth are bookkeeping of the
\* model: the action whose callback created the context, and the nesting.
EmitContext(inst, prefix, hasMap, captureMap, parent, depth) ==
  [inst |-> inst, prefix |-> prefix, hasMap |-> hasMap,
   captureMap |-> captureMap, parent |-> parent, depth |-> depth]

\* JSON.stringify(ref.value), for values that need no escaping.
JSONstringify(lit) ==
  IF lit.jstype = "string" THEN "\"" \o lit.value \o "\"" ELSE lit.value

\* (mutant) es.string() without the capture map, as before joins existed.
StringOfNoRename(t, es, r) ==
  IF r.is = "literal" THEN [err |-> "none", str |-> JSONstringify(r)]
  ELSE IF r.is = "slot"
       THEN [err |-> "none", str |-> t.slots[r.id].slot]
  ELSE [err |-> "inappropriate-end-point", str |-> ""]

\* The text es.string() returns for a resolved end-point, "" with an error
\* code when the end-point is neither a literal nor a slot.
StringOf(t, es, r) ==
  IF r.is = "literal" THEN [err |-> "none", str |-> JSONstringify(r)]
  ELSE IF r.is = "slot"
       THEN LET slot == t.slots[r.id].slot
            IN IF es.hasMap /\ Has(es.captureMap, slot)
               THEN [err |-> "none", str |-> es.captureMap[slot]]
               ELSE [err |-> "none", str |-> slot]
  ELSE [err |-> "inappropriate-end-point", str |-> ""]

\* es.string(binding)
EsString(t, es, b) ==
  LET r == BindingResolve(t, b)
      s == StringOf(r.tpl, es, r.ref)
  IN IF ~Ok(r.tpl) THEN [tpl |-> r.tpl, str |-> ""]
     ELSE IF s.err # "none" THEN [tpl |-> Fail(r.tpl, s.err), str |-> ""]
     ELSE [tpl |-> r.tpl, str |-> s.str]

\* binding.resolve().asBool()
EsAsBool(t, b) ==
  LET r == BindingResolve(t, b)
  IN IF ~Ok(r.tpl) THEN [tpl |-> r.tpl, str |-> ""]
     ELSE IF EpType(r.tpl, r.ref) # "boolean"
          THEN [tpl |-> Fail(r.tpl, "not-boolean"), str |-> ""]
     ELSE IF r.ref.is = "literal" THEN [tpl |-> r.tpl, str |-> r.ref.value]
     ELSE [tpl |-> r.tpl, str |-> r.tpl.slots[r.ref.id].slot]

\* One interpolation of a template, evaluated for action a.
Piece(t, es, a, p) ==
  LET inst == t.insts[t.actions[a].inst]
  IN CASE p.t = "txt" -> [tpl |-> t, str |-> p.s]
       [] p.t = "string" -> EsString(t, es, inst.inputs[p.s])
       [] p.t = "asBool" -> EsAsBool(t, inst.inputs[p.s])
       [] p.t = "slot" -> [tpl |-> t, str |-> t.slots[inst.locals[p.s]].slot]
       [] p.t = "import" -> [tpl |-> t, str |-> inst.syms[p.s]]
       [] p.t = "uid" -> [tpl |-> t, str |-> inst.syms[p.s]]

\* The template from its k-th piece on, appended to acc.
RECURSIVE Render(_, _, _, _, _, _)
Render(t, es, a, parts, k, acc) ==
  IF k > Len(parts) \/ ~Ok(t) THEN [tpl |-> t, str |-> acc]
  ELSE LET r == Piece(t, es, a, parts[k])
       IN Render(r.tpl, es, a, parts, k + 1, acc \o r.str)

\* es.emit(code), pushed by action `by`
EsEmit(t, es, by, code, k, x, y, n) ==
  IF ~Ok(t) THEN t
  ELSE [t EXCEPT !.lines =
          Append(@, Line(es.prefix \o code, es.prefix, by, es.parent,
                         es.depth, k, x, y, n))]

\* The two checks of emit_triggered on its argument.
TriggerCheck(slot) ==
  IF slot.is # "slot" THEN "not-a-slot"
  ELSE IF slot.mode = "const" THEN "bad-mode"
  ELSE "none"

RECURSIVE EmitAction(_, _, _)
RECURSIVE RunBody(_, _, _, _)
RECURSIVE EmitQueue(_, _, _, _)

\* (mutant) the loop over ref.queued stops one entry early.
RECURSIVE EmitQueueDropsLast(_, _, _, _)
EmitQueueDropsLast(t, es, queued, k) ==
  IF k >= Len(queued) \/ ~Ok(t) THEN t
  ELSE EmitQueueDropsLast(
         EmitAction(t, queued[k],
           [es EXCEPT !.inst = t.actions[queued[k]].inst]),
         es, queued, k + 1)

\* (mutant) the loop over ref.queued emits every entry twice.
RECURSIVE EmitQueueTwice(_, _, _, _)
EmitQueueTwice(t, es, queued, k) ==
  IF k > Len(queued) \/ ~Ok(t) THEN t
  ELSE EmitQueueTwice(
         EmitAction(
           EmitAction(t, queued[k],
             [es EXCEPT !.inst = t.actions[queued[k]].inst]),
           queued[k], [es EXCEPT !.inst = t.actions[queued[k]].inst]),
         es, queued, k + 1)

\* es.emit_triggered(ref, indent) called by action a: the loop over
\* ref.queued from the k-th entry on, each in a fresh context.
EmitQueue(t, es, queued, k) ==
  IF k > Len(queued) \/ ~Ok(t) THEN t
  ELSE EmitQueue(
         EmitAction(t, queued[k],
           [es EXCEPT !.inst = t.actions[queued[k]].inst]),
         es, queued, k + 1)

emit_triggered(t, es, a, slot, indent) ==
  IF TriggerCheck(t.slots[slot]) # "none"
  THEN Fail(t, TriggerCheck(t.slots[slot]))
  ELSE EmitQueue(t,
         EmitContext(0, es.prefix \o indent, FALSE, EmptyMap, a,
                     es.depth + 1),
         t.slots[slot].queued, 1)

\* The emit callback of a component's action from its k-th call on.
RunBody(t, es, a, k) ==
  IF k > Len(t.actions[a].body) \/ ~Ok(t) THEN t
  ELSE LET op == t.actions[a].body[k]
           locals == t.insts[t.actions[a].inst].locals
       IN IF op.op = "emit"
          THEN LET r == Render(t, es, a, op.parts, 1, "")
                   x == IF op.out = "" THEN ""
                        ELSE t.slots[locals[op.out]].slot
               IN RunBody(EsEmit(r.tpl, es, a, r.str, op.k, x, "", 0),
                          es, a, k + 1)
          ELSE IF op.op = "eval"
          THEN RunBody(Render(t, es, a, op.parts, 1, "").tpl, es, a, k + 1)
          ELSE RunBody(emit_triggered(t, es, a, locals[op.out], op.indent),
                       es, a, k + 1)

\* (mutant) the actor closes its function before the body of the action is
\* emitted.
ActorBodyClosesEarly(t, es, a) ==
  LET act == t.actions[a]
      t1 == EsEmit(t, es, a, "function " \o act.actorVar \o "() {",
                   "fn", act.actorVar, act.counterVar, 0)
      t2 == EsEmit(t1, es, a, "}", "fnend", act.actorVar, "", 0)
      es2 == EmitContext(t.actions[act.of].inst, "  ", TRUE,
                         act.captureMap, a, es.depth + 1)
  IN EmitAction(t2, act.of, es2)

\* The emit callback of the actor of a join.
ActorBody(t, es, a) ==
  LET act == t.actions[a]
      t1 == EsEmit(t, es, a, "function " \o act.actorVar \o "() {",
                   "fn", act.actorVar, act.counterVar, 0)
      es2 == EmitContext(t.actions[act.of].inst, "  ", TRUE,
                         act.captureMap, a, es.depth + 1)
      t2 == EmitAction(t1, act.of, es2)
  IN EsEmit(t2, es, a, "}", "fnend", act.actorVar, "", 0)

\* The emit callback of a helper of a join.
DecrBody(t, es, a) ==
  LET act == t.actions[a]
      slot == t.slots[act.need].slot
      t1 == EsEmit(t, es, a, act.capture \o " = " \o slot \o ";",
                   "cap", act.capture, slot, 0)
  IN EsEmit(t1, es, a,
            "if (!--" \o act.counterVar \o ") " \o act.actorVar \o "();",
            "decr", act.counterVar, act.actorVar, 0)

\* act.emit(es)
EmitAction(t, a, es) ==
  IF ~Ok(t) THEN t
  ELSE CASE t.actions[a].kind = "user" -> RunBody(t, es, a, 1)
         [] t.actions[a].kind = "actor" -> ActorBody(t, es, a)
         [] t.actions[a].kind = "decr" -> DecrBody(t, es, a)

----------------------------------------------------------------------------
(* emit_code and write                                                     *)

ImportLine(imp) ==
  Line("var " \o imp.sym \o " = require(\"" \o LibsText(imp.lib) \o "\");",
       "", 0, 0, 0, "import", imp.sym, "", 0)

BlankLine == Line("", "", 0, 0, 0, "blank", "", "", 0)

\* The first part of emit_code: one line per import, then an empty line.
EmitImports(t) ==
  [t EXCEPT !.lines =
     @ \o [k \in 1..Len(t.imports) |-> ImportLine(t.imports[k])]
       \o <<BlankLine>>]

\* One iteration of the loop of emit_code over this.roots.
EmitRoot(t, a) ==
  EmitAction(t, a, EmitContext(t.actions[a].inst, "", FALSE, EmptyMap, 0, 0))

----------------------------------------------------------------------------
(* The emitted program, run by node: single-threaded, run-to-completion.   *)
(* A line that opens a callback ("async") registers it; the event loop     *)
(* later fires the registered callbacks one at a time, in any order.       *)

NewRuntime == [pending |-> {}, counter |-> EmptyMap, trace |-> <<>>]

Ev(ev, ln) == [ev |-> ev, ln |-> ln]

\* The line closing the block that is open at depth d before line j.
RECURSIVE ScanEnd(_, _, _)
ScanEnd(L, j, d) ==
  IF j > Len(L) THEN j
  ELSE IF L[j].k \in {"async", "fn"} THEN ScanEnd(L, j + 1, d + 1)
  ELSE IF L[j].k \in {"end", "fnend"}
       THEN IF d = 1 THEN j ELSE ScanEnd(L, j + 1, d - 1)
  ELSE ScanEnd(L, j + 1, d)

MatchEnd(L, i) == ScanEnd(L, i + 1, 1)

\* The line that declares function `name`.
FnLine(L, name) ==
  CHOOSE f \in 1..Len(L) : L[f].k = "fn" /\ L[f].x = name

\* Lines i..j of the program, executed in sequence.
RECURSIVE ExecBlock(_, _, _, _)
ExecBlock(L, r, i, j) ==
  IF i > j THEN r
  ELSE LET ln == L[i]
           r1 == [r EXCEPT !.trace = Append(@, Ev("exec", i))]
       IN CASE ln.k = "fn" -> ExecBlock(L, r, MatchEnd(L, i) + 1, j)
            [] ln.k = "async" ->
                 ExecBlock(L, [r1 EXCEPT !.pending = @ \cup {i}],
                           MatchEnd(L, i) + 1, j)
            [] ln.k = "decl" ->
                 ExecBlock(L, [r1 EXCEPT !.counter = Put(@, ln.x, ln.n)],
                           i + 1, j)
            [] ln.k = "decr" ->
                 LET c == r.counter[ln.x] - 1
                     r2 == [r1 EXCEPT !.counter = Put(@, ln.x, c)]
                     f == FnLine(L, ln.y)
                 IN IF c = 0
                    THEN ExecBlock(L,
                           ExecBlock(L,
                             [r2 EXCEPT !.trace = Append(@, Ev("call", f))],
                             f + 1, MatchEnd(L, f) - 1),
                           i + 1, j)
                    ELSE ExecBlock(L, r2, i + 1, j)
            [] OTHER -> ExecBlock(L, r1, i + 1, j)

\* node out.js: the top level of the program.
RunProgram(L) == ExecBlock(L, NewRuntime, 1, Len(L))

\* The event loop runs the callback registered by line i.
FireCallback(L, r, i) ==
  ExecBlock(L,
    [r EXCEPT !.pending = @ \ {i}, !.trace = Append(@, Ev("fire", i))],
    i + 1, MatchEnd(L, i) - 1)

----------------------------------------------------------------------------
(* The graphs the compiler is run on.                                      *)

\* The graph of the repository's driver (const ast of the join revision).
RepoAst ==
  << use("WriteText", "wr",
       [filename |-> text("copy.json"), in |-> ref(<<"cc2", "out">>)]),
     use("EncodeJSON", "je", [in |-> ref(<<"jp", "out">>)]),
     use("ParseJSON", "jp", [in |-> ref(<<"rd", "out">>)]),
     use("ReadText", "rd", [filename |-> text("../curseof/package.json")]),
     use("ReadText", "rd2", [filename |-> text("../curseof/package.json")]),
     use("ConcatText", "cc1",
       [left |-> ref(<<"je", "out">>), right |-> text(" and DONE.")]),
     use("ConcatText", "cc2",
       [left |-> ref(<<"cc1", "out">>), right |-> ref(<<"rd2", "out">>)]),
     use("LogText", "log1", [in |-> ref(<<"cc2", "out">>)]) >>

\* The graph of the repository's first driver (const ast of build.js).
BuildAst ==
  << use("WriteText", "wr",
       [filename |-> text("copy.json"), in |-> ref(<<"je", "out">>)]),
     use("EncodeJSON", "je", [in |-> ref(<<"jp", "out">>)]),
     use("ParseJSON", "jp", [in |-> ref(<<"rd", "out">>)]),
     use("ReadText", "rd", [filename |-> text("../curseof/package.json")]) >>

\* The chain: read, parse, encode, write.
ChainAst ==
  << use("ReadText", "rd", [filename |-> text("in.json")]),
     use("ParseJSON", "jp", [in |-> ref(<<"rd", "out">>)]),
     use("EncodeJSON", "je", [in |-> ref(<<"jp", "out">>)]),
     use("WriteText", "wr",
       [filename |-> text("out.json"), in |-> ref(<<"je", "out">>)]) >>

\* Two independent producers and a consumer of both.
JoinAst ==
  << use("ReadText", "A", [filename |-> text("a.txt")]),
     use("ReadText", "B", [filename |-> text("b.txt")]),
     use("ConcatText", "C",
       [left |-> ref(<<"A", "out">>), right |-> ref(<<"B", "out">>)]),
     use("LogText", "L", [in |-> ref(<<"C", "out">>)]) >>

\* MaxJoin producers and an n-ary consumer of all of them.
ProducerId(i) == "P" \o ToString(i)

WideJoinAst ==
  [i \in 1..MaxJoin |->
     use("ReadText", ProducerId(i), [filename |-> text("p.txt")])]
  \o << use("ConcatN", "C",
          [n \in {InName(i) : i \in 1..MaxJoin} |->
             ref(<<ProducerId(CHOOSE i \in 1..MaxJoin : InName(i) = n),
                   "out">>)]),
        use("LogText", "L", [in |-> ref(<<"C", "out">>)]) >>

\* A consumer whose two inputs are the same output.
SameSlotAst ==
  << use("ReadText", "A", [filename |-> text("a.txt")]),
     use("ConcatText", "C",
       [left |-> ref(<<"A", "out">>), right |-> ref(<<"A", "out">>)]),
     use("LogText", "L", [in |-> ref(<<"C", "out">>)]) >>

\* A join one of whose dependencies is the output of another join.
NestedJoinAst ==
  << use("ReadText", "A", [filename |-> text("a.txt")]),
     use("ReadText", "B", [filename |-> text("b.txt")]),
     use("ReadText", "D", [filename |-> text("d.txt")]),
     use("ConcatText", "J1",
       [left |-> ref(<<"A", "out">>), right |-> ref(<<"B", "out">>)]),
     use("ConcatText", "J2",
       [left |-> ref(<<"J1", "out">>), right |-> ref(<<"D", "out">>)]),
     use("LogText", "L", [in |-> ref(<<"J2", "out">>)]) >>

\* Actions whose inputs are all literals, and a join of two of them.
LiteralAst ==
  << use("LogText", "L", [in |-> text("hello")]),
     use("ConcatText", "X", [left |-> text("a"), right |-> text("b")]),
     use("ConcatText", "Y", [left |-> text("c"), right |-> text("d")]),
     use("ConcatText", "Z",
       [left |-> ref(<<"X", "out">>), right |-> ref(<<"Y", "out">>)]) >>

\* Two actions that wait on each other's output, beside a root.
CycleAst ==
  << use("LogText", "L", [in |-> text("hello")]),
     use("ConcatText", "X",
       [left |-> ref(<<"Y", "out">>), right |-> text("1")]),
     use("ConcatText", "Y",
       [left |-> ref(<<"X", "out">>), right |-> text("2")]) >>

\* The components with defaults, private slots and several outputs.
CanvasAst ==
  << use("WebGLCanvas", "canvas", NoArgs),
     use("LoadImage", "lim", [src |-> text("assets/tiles.png")]),
     use("LogText", "L", [in |-> text("hello")]) >>

\* A component whose inputs no action waits on, behind two roots.
LateCanvasAst ==
  << use("LogText", "L", [in |-> text("hello")]),
     use("ReadText", "rd", [filename |-> text("in.txt")]),
     use("WebGLCanvas", "canvas", NoArgs) >>

\* Components whose inputs have defaults, the arguments omitted.
DefaultsAst ==
  << use("LogDefault", "D", NoArgs),
     use("WebGLCanvas", "canvas", NoArgs),
     use("SizedBox", "box", NoArgs) >>

\* A use-site of a component that imports an unknown library, between two
\* that import fs.
UnknownLibAst ==
  << use("ReadText", "rd", [filename |-> text("in.txt")]),
     use("Fetch", "f", [url |-> text("http://localhost/")]),
     use("WriteText", "wr",
       [filename |-> text("out.txt"), in |-> ref(<<"rd", "out">>)]) >>

\* A use-site of a component that imports a name libs inherits, beside one
\* that imports fs.
InheritedLibAst ==
  << use("ReadText", "rd", [filename |-> text("in.txt")]),
     use("Stringer", "s", [in |-> ref(<<"rd", "out">>)]) >>

\* A join of an output whose symbol is out_1 with an output whose name is
\* out_1.
ShadowAst ==
  << use("ReadText", "A", [filename |-> text("a.txt")]),
     use("Shadow", "S", [filename |-> text("s.txt")]),
     use("ConcatText", "C",
       [left |-> ref(<<"A", "out">>), right |-> ref(<<"S", "out_1">>)]),
     use("LogText", "L", [in |-> ref(<<"C", "out">>)]) >>

\* References to a private slot and to an output of one instance, both of
\* the type the referring input wants.
PrivateRefAst ==
  << use("Shadow", "S", [filename |-> text("s.txt")]),
     use("LogText", "L", [in |-> ref(<<"S", "counter_1">>)]),
     use("LogText", "M", [in |-> ref(<<"S", "out_1">>)]) >>

BaseGraphs ==
  {RepoAst, BuildAst, ChainAst, JoinAst, WideJoinAst, SameSlotAst, NestedJoinAst,
   LiteralAst, CycleAst, CanvasAst, LateCanvasAst, DefaultsAst, UnknownLibAst,
   InheritedLibAst, ShadowAst, PrivateRefAst}

\* Every order of the use-sites of a graph (every rotation of a long one).
Reorderings(g) ==
  IF Len(g) <= 4
  THEN {[i \in 1..Len(g) |-> g[p[i]]] : p \in Permutations(1..Len(g))}
  ELSE {[i \in 1..Len(g) |-> g[((i + k - 1) % Len(g)) + 1]] :
          k \in 0..(Len(g) - 1)}

\* The input fields a use-site's component declares.
InputNames(item) ==
  {c.name : c \in {components(item.is)[k] :
                     k \in {k \in 1..Len(components(item.is)) :
                              components(item.is)[k].call = "input"}}}

AllInputNames(g) == UNION {InputNames(g[k]) : k \in 1..Len(g)}

Ids(g) == {g[i].id : i \in 1..Len(g)}

\* The values one argument of a graph is replaced by.
ArgPool(g) ==
  {text("lit"), Literal("json", "string", "{}"),
   Literal("boolean", "boolean", "true"),
   ref(<<"zz", "out">>), ref(<<"zz">>), ref(<<g[1].id>>),
   ref(<<g[1].id, "nope">>), ref(<<g[Len(g)].id, "out", "out">>)}
  \cup {ref(<<id, "out">>) : id \in Ids(g)}

Without(args, f) == [x \in (DOMAIN args) \ {f} |-> args[x]]

\* The graphs that differ from g in one argument, one id or one kind.
Variants(g) ==
  {[g EXCEPT ![i].args = Put(@, f, v)] :
     <<i, f, v>> \in {<<i, f, v>> \in (1..Len(g)) \X AllInputNames(g)
                        \X ArgPool(g) : f \in InputNames(g[i])}}
  \cup {[g EXCEPT ![i].args = Without(@, f)] :
          <<i, f>> \in {<<i, f>> \in (1..Len(g)) \X AllInputNames(g) :
                          f \in DOMAIN g[i].args}}
  \cup {[g EXCEPT ![i].id = g[j].id] :
          <<i, j>> \in {<<i, j>> \in (1..Len(g)) \X (1..Len(g)) : i # j}}
  \cup {[g EXCEPT ![i].is = "Nope"] : i \in 1..Len(g)}

Graphs ==
  UNION {Reorderings(g) \cup Variants(g) : g \in BaseGraphs}

----------------------------------------------------------------------------
(* The compiler process: generate(ast), then node out.js.                  *)

Init ==
  /\ ast \in Graphs
  /\ pc = "generate"
  /\ ix = 1
  /\ tpl = NewTemplateContext("main")
  /\ file = [written |-> FALSE, lines |-> <<>>]
  /\ rt = NewRuntime

\* Where the process is after a step left it in phase p at index i with
\* template t.
After(p, i, t) ==
  IF ~Ok(t) THEN <<"exit", i>>
  ELSE IF p = "generate" /\ i <= Len(ast) THEN <<p, i>>
  ELSE IF p = "generate" /\ Len(t.acts) >= 1 THEN <<"resolve_acts", 1>>
  ELSE IF p = "resolve_acts" /\ i <= Len(t.acts) THEN <<p, i>>
  ELSE IF p \in {"generate", "resolve_acts"} THEN <<"emit_code", 0>>
  ELSE IF i <= Len(t.roots) THEN <<"emit_code", i>>
  ELSE <<"write", 0>>

\* (mutant) the action a use-site registers is resolved and queued at once,
\* before the use-sites after it exist.
GenerateAndResolve ==
  /\ pc = "generate"
  /\ LET t1 == GenerateItem(tpl, ast[ix])
     IN tpl' = IF Ok(t1) /\ Len(t1.acts) > Len(tpl.acts)
               THEN ResolveAct(t1, t1.acts[Len(t1.acts)])
               ELSE t1
  /\ pc' = After("generate", ix + 1, tpl')[1]
  /\ ix' = After("generate", ix + 1, tpl')[2]
  /\ UNCHANGED <<ast, file, rt>>

\* generate(): the body of the loop over the use-sites.
Generate ==
  /\ pc = "generate"
  /\ tpl' = GenerateItem(tpl, ast[ix])
  /\ pc' = After("generate", ix + 1, tpl')[1]
  /\ ix' = After("generate", ix + 1, tpl')[2]
  /\ UNCHANGED <<ast, file, rt>>

\* tpl.resolve_acts(): the body of the loop over the registered actions.
ResolveActs ==
  /\ pc = "resolve_acts"
  /\ tpl' = ResolveAct(tpl, tpl.acts[ix])
  /\ pc' = After("resolve_acts", ix + 1, tpl')[1]
  /\ ix' = After("resolve_acts", ix + 1, tpl')[2]
  /\ UNCHANGED <<ast, file, rt>>

\* tpl.emit_code(): the imports, ...
EmitCodeImports ==
  /\ pc = "emit_code" /\ ix = 0
  /\ tpl' = EmitImports(tpl)
  /\ pc' = After("emit_code", 1, tpl')[1]
  /\ ix' = After("emit_code", 1, tpl')[2]
  /\ UNCHANGED <<ast, file, rt>>

\* ... then the body of the loop over the roots.
EmitCodeRoot ==
  /\ pc = "emit_code" /\ ix >= 1
  /\ tpl' = EmitRoot(tpl, tpl.roots[ix])
  /\ pc' = After("emit_code", ix + 1, tpl')[1]
  /\ ix' = After("emit_code", ix + 1, tpl')[2]
  /\ UNCHANGED <<ast, file, rt>>

\* (mutant) the file is written on the way out of a failed compilation too.
WriteEvenAfterFailure ==
  /\ pc \in {"write", "exit"}
  /\ ~file.written
  /\ file' = [written |-> TRUE, lines |-> tpl.lines]
  /\ pc' = IF pc = "write" THEN "node" ELSE pc
  /\ UNCHANGED <<ast, ix, tpl, rt>>

\* tpl.write('out.js')
Write ==
  /\ pc = "write"
  /\ file' = [written |-> TRUE, lines |-> tpl.lines]
  /\ pc' = "node"
  /\ UNCHANGED <<ast, ix, tpl, rt>>

\* node out.js runs the top level of the written program.
RunMain ==
  /\ pc = "node"
  /\ rt' = RunProgram(file.lines)
  /\ pc' = "event_loop"
  /\ UNCHANGED <<ast, ix, tpl, file>>

\* The event loop delivers the completion of one pending callback.
Fire ==
  /\ pc = "event_loop"
  /\ \E i \in rt.pending : rt' = FireCallback(file.lines, rt, i)
  /\ UNCHANGED <<ast, pc, ix, tpl, file>>

Next ==
  \/ Generate
  \/ ResolveActs
  \/ EmitCodeImports
  \/ EmitCodeRoot
  \/ Write
  \/ RunMain
  \/ Fire

Spec == Init /\ [][Next]_vars

\* The steps of generate(), as opposed to those of the emitted program.
Compiler ==
  Generate \/ ResolveActs \/ EmitCodeImports \/ EmitCodeRoot \/ Write

----------------------------------------------------------------------------
(* Vocabulary of the properties.                                           *)

ActionIds == 1..Len(tpl.actions)
SlotIds == 1..Len(tpl.slots)
BindingIds == 1..Len(tpl.bindings)
UserActs == {a \in ActionIds : tpl.actions[a].kind = "user"}
Actors == {k \in ActionIds : tpl.actions[k].kind = "actor"}
Helpers == {h \in ActionIds : tpl.actions[h].kind = "decr"}
ActorsOf(a) == {k \in Actors : tpl.actions[k].of = a}
HelpersOf(a) == {h \in Helpers : tpl.actions[h].of = a}

\* Has resolve_acts been through action a?
Scheduled(a) ==
  /\ a \in UserActs
  /\ pc # "generate"
  /\ \/ pc \in {"emit_code", "write", "node", "event_loop"}
     \/ pc = "resolve_acts" /\ \E p \in 1..(ix - 1) : tpl.acts[p] = a
     \/ pc = "exit" /\ (a \in Range(tpl.roots) \/ tpl.actions[a].needs # <<>>)

EmitDone == pc \in {"write", "node", "event_loop"}

LinesBy(L, a) == {i \in 1..Len(L) : L[i].by = a}
LinesOfKind(L, a, k) == {i \in LinesBy(L, a) : L[i].k = k}
First(S) == CHOOSE i \in S : \A j \in S : i <= j
Last(S) == CHOOSE i \in S : \A j \in S : j <= i
Count(q, x) == Cardinality({p \in 1..Len(q) : q[p] = x})

\* Positions of an event in the trace of the running program.
At(ev, ln) == {p \in 1..Len(rt.trace) : rt.trace[p] = Ev(ev, ln)}
\* Did line i run before position p of the trace?
RanBefore(i, p) == \E q \in At("exec", i) : q < p

\* The instances whose outputs instance i is wired to, and the graph having
\* no cycle of such wires.
WiredTo(i) ==
  {tpl.slots[tpl.bindings[b].resolved.id].inst :
     b \in {b \in BindingIds : /\ tpl.bindings[b].inst = i
                               /\ tpl.bindings[b].resolved.is = "slot"}}

RECURSIVE Upstream(_, _)
Upstream(S, n) ==
  IF n = 0 THEN S
  ELSE Upstream(S \cup UNION {WiredTo(i) : i \in S}, n - 1)

Acyclic ==
  \A i \in 1..Len(tpl.insts) :
    i \notin Upstream(WiredTo(i), Len(tpl.insts))

----------------------------------------------------------------------------
(* C1: single-fire join.  While the emitted program runs, the actor        *)
(* function of every join over N >= 2 dependencies is called at most once, *)
(* a call comes only after the capture assignment and the counter          *)
(* decrement of all N helpers have run, and once all N helpers have run -  *)
(* whatever the order in which the callbacks fired - it has been called    *)
(* exactly once.  In an acyclic graph that is the case when the program    *)
(* has no callback left to fire.                                           *)

JoinWidth(k) == Len(tpl.actions[tpl.actions[k].of].needs)
ActorCalls(k) == At("call", FnLine(file.lines, tpl.actions[k].actorVar))
HelperRanBefore(h, p) ==
  /\ \E i \in LinesOfKind(file.lines, h, "cap") : RanBefore(i, p)
  /\ \E i \in LinesOfKind(file.lines, h, "decr") : RanBefore(i, p)

C1_SingleFireJoin ==
  pc = "event_loop" =>
    \A k \in Actors :
      LET H == HelpersOf(tpl.actions[k].of)
      IN /\ JoinWidth(k) >= 2
         /\ Cardinality(H) = JoinWidth(k)
         /\ Cardinality(ActorCalls(k)) <= 1
         /\ \A p \in ActorCalls(k) : \A h \in H : HelperRanBefore(h, p)
         /\ (\A h \in H : HelperRanBefore(h, Len(rt.trace) + 1))
              => Cardinality(ActorCalls(k)) = 1
         /\ (rt.pending = {} /\ Acyclic) => Cardinality(ActorCalls(k)) = 1

\* A join of MaxJoin dependencies has fired once, its last registered
\* dependency having arrived before its first.
C1_Witness ==
  /\ pc = "event_loop"
  /\ \E k \in Actors :
       /\ JoinWidth(k) = MaxJoin
       /\ Cardinality(ActorCalls(k)) = 1
       /\ \E h1, h2 \in HelpersOf(tpl.actions[k].of) :
            /\ h1 < h2
            /\ \E i1 \in LinesOfKind(file.lines, h1, "cap"),
                  i2 \in LinesOfKind(file.lines, h2, "cap") :
                 \E p \in At("exec", i1) : RanBefore(i2, p)

----------------------------------------------------------------------------
(* C2: the join scenario.  Once resolve_acts has been through an action    *)
(* that waits on the outputs of two different producers there are: one     *)
(* counter declaration line, initialised to 2 and naming two distinct      *)
(* capture symbols; one actor, once in the root list, whose function body  *)
(* is the emission of the action; two helpers, one in the queue of each    *)
(* producer's slot, each emitting the capture assignment and the counter   *)
(* decrement; and the action itself is in no root list and no queue.       *)

TwoProducers(a) ==
  /\ Scheduled(a)
  /\ Len(tpl.actions[a].needs) = 2
  /\ tpl.slots[tpl.actions[a].needs[1]].inst
       # tpl.slots[tpl.actions[a].needs[2]].inst

QueuedOnlyOn(h, s) ==
  /\ Count(tpl.slots[s].queued, h) = 1
  /\ \A o \in SlotIds \ {s} : h \notin Range(tpl.slots[o].queued)

\* The lines helper h pushed, if it was emitted: the assignment, then the
\* decrement.
HelperLines(h) ==
  LET act == tpl.actions[h]
      I == LinesBy(tpl.lines, h)
  IN I # {} =>
       /\ Cardinality(I) = 2
       /\ Last(I) = First(I) + 1
       /\ tpl.lines[First(I)].text =
            tpl.lines[First(I)].prefix \o act.capture \o " = "
              \o tpl.slots[act.need].slot \o ";"
       /\ tpl.lines[Last(I)].text =
            tpl.lines[Last(I)].prefix \o "if (!--" \o act.counterVar
              \o ") " \o act.actorVar \o "();"

\* The function the actor k of action a pushed: its body is the emission of a.
ActorFunction(k, a) ==
  LET F == LinesOfKind(tpl.lines, k, "fn")
      E == LinesOfKind(tpl.lines, k, "fnend")
      B == LinesBy(tpl.lines, a)
  IN /\ Cardinality(F) = 1 /\ Cardinality(E) = 1
     /\ tpl.lines[First(F)].text =
          "function " \o tpl.actions[k].actorVar \o "() {"
     /\ tpl.lines[First(E)].text = "}"
     /\ B # {}
     /\ First(B) = First(F) + 1
     /\ \A i \in B : i < First(E) /\ tpl.lines[i].parent = k
     /\ \A i \in (First(F) + 1)..(First(E) - 1) : tpl.lines[i].depth >= 1

C2_JoinScenario ==
  \A a \in UserActs :
    TwoProducers(a) =>
      LET n == tpl.actions[a].needs
          K == ActorsOf(a)
          H == HelpersOf(a)
      IN /\ Cardinality(K) = 1
         /\ Cardinality(H) = 2
         /\ a \notin Range(tpl.roots)
         /\ \A s \in SlotIds : a \notin Range(tpl.slots[s].queued)
         /\ \A k \in K :
              /\ Count(tpl.roots, k) = 1
              /\ \A s \in SlotIds : k \notin Range(tpl.slots[s].queued)
              /\ EmitDone => ActorFunction(k, a)
              /\ \E h1, h2 \in H :
                   /\ tpl.actions[h1].need = n[1]
                   /\ tpl.actions[h2].need = n[2]
                   /\ tpl.actions[h1].capture # tpl.actions[h2].capture
                   /\ QueuedOnlyOn(h1, n[1]) /\ QueuedOnlyOn(h2, n[2])
                   /\ h1 \notin Range(tpl.roots) /\ h2 \notin Range(tpl.roots)
                   /\ \A h \in {h1, h2} :
                        /\ tpl.actions[h].counterVar = tpl.actions[k].counterVar
                        /\ tpl.actions[h].actorVar = tpl.actions[k].actorVar
                        /\ HelperLines(h)
                        /\ (EmitDone /\ Acyclic) => LinesBy(tpl.lines, h) # {}
                   /\ LET D == {i \in 1..Len(tpl.lines) :
                                  /\ tpl.lines[i].k = "decl"
                                  /\ tpl.lines[i].x = tpl.actions[k].counterVar}
                      IN /\ Cardinality(D) = 1
                         /\ \A i \in D :
                              /\ tpl.lines[i].n = 2
                              /\ tpl.lines[i].text =
                                   "var " \o tpl.actions[k].counterVar
                                     \o " = 2, " \o tpl.actions[h1].capture
                                     \o ", " \o tpl.actions[h2].capture \o ";"

\* The program of a graph with such a consumer has been emitted, the
\* helpers included.
C2_Witness ==
  /\ EmitDone
  /\ \E a \in UserActs :
       /\ TwoProducers(a)
       /\ \A h \in HelpersOf(a) : LinesBy(tpl.lines, h) # {}

----------------------------------------------------------------------------
(* C3: capture renaming.  In the context in which the actor of a join      *)
(* renders the body of its action, string(binding) of a binding that       *)
(* resolved to a dependency slot of the join is the capture symbol a       *)
(* helper of the join assigns from that slot, never the slot's own symbol; *)
(* of a binding that resolved to any other slot, and of every slot binding *)
(* in a context without capture map, it is the slot's own symbol; of a     *)
(* literal it is the quoted constant.  The body line a two-input           *)
(* concatenation emits inside its actor function reads the captures.       *)

\* The context the actor k creates for the body of its action.
ActorContext(k) ==
  EmitContext(tpl.actions[tpl.actions[k].of].inst, "  ", TRUE,
              tpl.actions[k].captureMap, k, 1)

PlainContext == EmitContext(0, "", FALSE, EmptyMap, 0, 0)

Resolved(b) == tpl.bindings[b].resolved

CapturesFor(k, s) ==
  {tpl.actions[h].capture :
     h \in {h \in HelpersOf(tpl.actions[k].of) : tpl.actions[h].need = s}}

Quoted(lit) ==
  IF lit.jstype = "string" THEN "\"" \o lit.value \o "\"" ELSE lit.value

ConcatJoinLine(k) ==
  LET a == tpl.actions[k].of
      inst == tpl.insts[tpl.actions[a].inst]
      B == LinesBy(tpl.lines, a)
  IN (inst.kind = "ConcatText" /\ EmitDone) =>
       /\ Cardinality(B) = 1
       /\ \E c1 \in CapturesFor(k, Resolved(inst.inputs["left"]).id),
             c2 \in CapturesFor(k, Resolved(inst.inputs["right"]).id) :
            \A i \in B :
              tpl.lines[i].text =
                "  const " \o tpl.slots[inst.locals["out"]].slot \o " = "
                  \o c1 \o " + " \o c2 \o ";"

C3_CaptureRename ==
  Ok(tpl) =>
    /\ \A b \in BindingIds :
         /\ Resolved(b).is = "literal" =>
              EsString(tpl, PlainContext, b).str = Quoted(Resolved(b))
         /\ Resolved(b).is = "slot" =>
              EsString(tpl, PlainContext, b).str
                = tpl.slots[Resolved(b).id].slot
    /\ \A k \in Actors :
         /\ ConcatJoinLine(k)
         /\ \A b \in BindingIds :
              LET r == Resolved(b)
                  str == EsString(tpl, ActorContext(k), b).str
                  deps == Range(tpl.actions[tpl.actions[k].of].needs)
              IN /\ (r.is = "slot" /\ r.id \in deps) =>
                      /\ str \in CapturesFor(k, r.id)
                      /\ str # tpl.slots[r.id].slot
                 /\ (r.is = "slot" /\ r.id \notin deps) =>
                      str = tpl.slots[r.id].slot
                 /\ r.is = "literal" => str = Quoted(r)

\* A join of two outputs beside a consumer of a third slot and a literal:
\* the body of the join has been emitted.
C3_Witness ==
  /\ EmitDone
  /\ \E k \in Actors :
       /\ tpl.insts[tpl.actions[tpl.actions[k].of].inst].kind = "ConcatText"
       /\ LinesBy(tpl.lines, tpl.actions[k].of) # {}
       /\ \E b \in BindingIds :
            /\ Resolved(b).is = "slot"
            /\ Resolved(b).id \notin Range(tpl.actions[tpl.actions[k].of].needs)
       /\ \E b \in BindingIds : Resolved(b).is = "literal"

----------------------------------------------------------------------------
(* C4: exactly-once emission of queued actions.  In the written program of *)
(* an acyclic graph, every action queued on a slot has each line of its    *)
(* body exactly once in the line sequence; the slot is introduced by       *)
(* exactly one line, of its producer; the lines of the queued action come  *)
(* after that line, are emitted by the trigger of that producer, and, when *)
(* the producer opens a callback there, come before the line closing it.   *)

\* How many lines the emit callback of action q pushes in one run.
BodyLines(q) ==
  IF tpl.actions[q].kind = "decr" THEN 2
  ELSE Cardinality({p \in 1..Len(tpl.actions[q].body) :
                      tpl.actions[q].body[p].op = "emit"})

\* The lines of the producer that introduce the symbol of slot s.
IntroLines(L, s) ==
  {i \in 1..Len(L) : /\ L[i].by \in UserActs
                     /\ L[i].x = tpl.slots[s].slot
                     /\ tpl.actions[L[i].by].inst = tpl.slots[s].inst}

QueuedOnce(L, s, q) ==
  /\ Cardinality(LinesBy(L, q)) = BodyLines(q)
  /\ Cardinality(IntroLines(L, s)) = 1
  /\ \A i \in IntroLines(L, s) : \A j \in LinesBy(L, q) :
       /\ i < j
       /\ L[j].parent = L[i].by
       /\ L[j].depth = L[i].depth + 1
       /\ L[i].k = "async" => j < MatchEnd(L, i)
       /\ \A e \in LinesOfKind(L, L[i].by, "end") : j < e

C4_QueuedExactlyOnce ==
  (file.written /\ Acyclic) =>
    \A s \in SlotIds : \A p \in 1..Len(tpl.slots[s].queued) :
      /\ QueuedOnce(file.lines, s, tpl.slots[s].queued[p])
      /\ Count(tpl.slots[s].queued, tpl.slots[s].queued[p]) = 1
      /\ \A s2 \in SlotIds \ {s} :
           tpl.slots[s].queued[p] \notin Range(tpl.slots[s2].queued)

\* A written acyclic program in which one callback-opening producer has a
\* helper and a component's action queued on its output.
C4_Witness ==
  /\ file.written /\ Acyclic
  /\ \E s \in SlotIds :
       /\ Len(tpl.slots[s].queued) >= 2
       /\ Range(tpl.slots[s].queued) \cap Helpers # {}
       /\ Range(tpl.slots[s].queued) \cap UserActs # {}
       /\ \E i \in IntroLines(file.lines, s) : file.lines[i].k = "async"

----------------------------------------------------------------------------
(* C5: queue order.  The entries of every slot's queue - actions with one  *)
(* dependency and helpers of joins alike - stand in the order in which the *)
(* actions they come from were registered with the template, and the       *)
(* trigger of the slot emits their lines in that order, one entry's lines  *)
(* wholly before the next entry's.                                         *)

\* The registered action a queue entry comes from.
Origin(q) == IF tpl.actions[q].kind = "user" THEN q ELSE tpl.actions[q].of

\* Its position in the registration order tpl.acts.
Registered(a) == CHOOSE p \in 1..Len(tpl.acts) : tpl.acts[p] = a

C5_QueueOrder ==
  \A s \in SlotIds :
    LET Q == tpl.slots[s].queued
    IN \A p, q \in 1..Len(Q) :
         p < q =>
           /\ Origin(Q[p]) \in Range(tpl.acts)
           /\ Origin(Q[q]) \in Range(tpl.acts)
           /\ Registered(Origin(Q[p])) <= Registered(Origin(Q[q]))
           /\ (Origin(Q[p]) = Origin(Q[q])) =>
                (Q[p] \in Helpers /\ Q[q] \in Helpers /\ Q[p] < Q[q])
           /\ (EmitDone /\ LinesBy(tpl.lines, Q[p]) # {}
                        /\ LinesBy(tpl.lines, Q[q]) # {}) =>
                Last(LinesBy(tpl.lines, Q[p])) < First(LinesBy(tpl.lines, Q[q]))

\* A triggered slot whose queue holds a helper of a join and, behind or
\* before it, the action of another component, all emitted.
C5_Witness ==
  /\ EmitDone
  /\ \E s \in SlotIds :
       LET Q == tpl.slots[s].queued
       IN /\ Len(Q) >= 2
          /\ Range(Q) \cap Helpers # {}
          /\ Range(Q) \cap UserActs # {}
          /\ \A p \in 1..Len(Q) : LinesBy(tpl.lines, Q[p]) # {}
          /\ \E p \in 1..Len(Q) - 1 : Q[p] \in Helpers /\ Q[p + 1] \in UserActs

----------------------------------------------------------------------------
(* C6: roots.  An action that resolve_acts has been through and whose      *)
(* waited bindings all resolved to literals is once in the root list and   *)
(* in no queue and no join; emit_code emits its lines at top level: empty  *)
(* prefix, triggered by no other action, nesting depth 0.  Two such        *)
(* actions stand in the root list, and their lines in the program, in the  *)
(* order of their registration, whatever actors stand between them.        *)

ConstOnly(a) ==
  /\ Scheduled(a)
  /\ \A k \in 1..Len(tpl.actions[a].wait) :
       tpl.bindings[tpl.actions[a].wait[k]].resolved.is = "literal"

RootAt(a) == CHOOSE p \in 1..Len(tpl.roots) : tpl.roots[p] = a

C6_RootOrder ==
  \A a \in UserActs :
    ConstOnly(a) =>
      /\ Count(tpl.roots, a) = 1
      /\ \A s \in SlotIds : a \notin Range(tpl.slots[s].queued)
      /\ ActorsOf(a) = {}
      /\ EmitDone =>
           /\ Cardinality(LinesBy(tpl.lines, a)) = BodyLines(a)
           /\ \A i \in LinesBy(tpl.lines, a) :
                /\ tpl.lines[i].prefix = ""
                /\ tpl.lines[i].parent = 0
                /\ tpl.lines[i].depth = 0
      /\ \A b \in UserActs :
           (ConstOnly(b) /\ Registered(a) < Registered(b)) =>
             /\ RootAt(a) < RootAt(b)
             /\ (EmitDone /\ LinesBy(tpl.lines, a) # {}
                          /\ LinesBy(tpl.lines, b) # {}) =>
                  Last(LinesBy(tpl.lines, a)) < First(LinesBy(tpl.lines, b))

\* An emitted program whose roots hold an action with a literal as its only
\* input, then an actor, then another action without needs.
C6_Witness ==
  /\ EmitDone
  /\ \E p, q, r \in 1..Len(tpl.roots) :
       /\ p < q /\ q < r
       /\ tpl.roots[q] \in Actors
       /\ ConstOnly(tpl.roots[p]) /\ ConstOnly(tpl.roots[r])
       /\ \E a \in {tpl.roots[p], tpl.roots[r]} :
            /\ tpl.insts[tpl.actions[a].inst].kind = "LogText"
            /\ LinesBy(tpl.lines, a) # {}

----------------------------------------------------------------------------
(* C7: imports first.  In the written program every import line precedes   *)
(* every other line: the declaration line of a join, the empty line and    *)
(* every line of a root.                                                   *)

C7_ImportsFirst ==
  file.written =>
    \A i, j \in 1..Len(file.lines) :
      (file.lines[i].k = "import" /\ file.lines[j].k # "import") => i < j

\* What the code does instead: the declaration lines of the joins, pushed
\* by resolve_acts, head the program; the imports and the empty line that
\* emit_code pushes follow, then the lines of the roots.
C7_DeclarationsLead ==
  file.written =>
    \A i, j \in 1..Len(file.lines) :
      /\ (file.lines[i].k = "decl" /\ file.lines[j].k # "decl") => i < j
      /\ (file.lines[i].k = "import"
            /\ file.lines[j].k \notin {"decl", "import"}) => i < j

C7_Witness ==
  /\ file.written
  /\ \E i, j \in 1..Len(file.lines) :
       file.lines[i].k = "decl" /\ file.lines[j].k = "import"

----------------------------------------------------------------------------
(* C8: the chain.  For the graph rd = ReadText, jp = ParseJSON(rd.out),    *)
(* je = EncodeJSON(jp.out), wr = WriteText(je.out), its use-sites in any   *)
(* order, compilation does not fail; scheduling leaves one root, the file  *)
(* read, no join, and each later action alone in the queue of the previous *)
(* output; the program is the import, the empty line and then the opening  *)
(* line of the read callback, its error check, the parse statement, the    *)
(* encode statement, the three lines of the write call and the closing     *)
(* line of the read callback, each action's lines emitted by the trigger   *)
(* of the previous action's output: nesting depths 0, 1, 2 and 3.          *)

IsChain == ast \in Reorderings(ChainAst) \cup Reorderings(BuildAst)

ActOf(id) == CHOOSE a \in UserActs : tpl.actions[a].inst = tpl.bound[id]
OutOf(id) == tpl.insts[tpl.bound[id]].fields["out"]
OutSym(id) == tpl.slots[OutOf(id)].slot
FileArg(id) ==
  "\"" \o tpl.bindings[tpl.insts[tpl.bound[id]].inputs["filename"]].to.value
       \o "\""

ChainTexts ==
  LET fs == tpl.imports[1].sym
  IN << "var " \o fs \o " = require(\"fs\");",
        "",
        fs \o ".readFile(" \o FileArg("rd") \o ", 'utf8', function (err, "
           \o OutSym("rd") \o ") {",
        "  if (err) throw err;",
        "  const " \o OutSym("jp") \o " = JSON.parse(" \o OutSym("rd") \o ");",
        "  const " \o OutSym("je") \o " = JSON.stringify(" \o OutSym("jp")
           \o ");",
        "  " \o fs \o ".writeFile(" \o FileArg("wr") \o ", " \o OutSym("je")
           \o ", 'utf8', function (err) {",
        "    if (err) throw err;",
        "  });",
        "});" >>

\* by, parent and depth of the ten lines.
ChainNesting ==
  LET rd == ActOf("rd")
      jp == ActOf("jp")
      je == ActOf("je")
      wr == ActOf("wr")
  IN << <<0, 0, 0>>, <<0, 0, 0>>,
        <<rd, 0, 0>>, <<rd, 0, 0>>,
        <<jp, rd, 1>>,
        <<je, jp, 2>>,
        <<wr, je, 3>>, <<wr, je, 3>>, <<wr, je, 3>>,
        <<rd, 0, 0>> >>

C8_ChainScenario ==
  IsChain =>
    /\ pc # "exit"
    /\ pc \in {"emit_code", "write", "node", "event_loop"} =>
         /\ tpl.roots = <<ActOf("rd")>>
         /\ Actors = {} /\ Helpers = {}
         /\ tpl.slots[OutOf("rd")].queued = <<ActOf("jp")>>
         /\ tpl.slots[OutOf("jp")].queued = <<ActOf("je")>>
         /\ tpl.slots[OutOf("je")].queued = <<ActOf("wr")>>
    /\ EmitDone =>
         /\ Len(tpl.lines) = 10
         /\ \A i \in 1..10 :
              /\ tpl.lines[i].text = ChainTexts[i]
              /\ <<tpl.lines[i].by, tpl.lines[i].parent, tpl.lines[i].depth>>
                   = ChainNesting[i]
         /\ MatchEnd(tpl.lines, 3) = 10
         /\ MatchEnd(tpl.lines, 7) = 9
    /\ file.written => file.lines = tpl.lines

\* The chain, its use-sites not in the order of the data flow, written.
C8_Witness ==
  /\ IsChain /\ ast # ChainAst
  /\ ast[1].is = "WriteText"
  /\ file.written
  /\ Len(file.lines) = 10

----------------------------------------------------------------------------
(* C9: type safety.  The end-point a binding has memoized always has the   *)
(* binding's declared type.  Once resolve() was called on a binding whose  *)
(* source resolves to an end-point of another type, compilation has ended  *)
(* with the type-mismatch error: nothing is memoized and no file written.  *)

\* The end-point the source of binding b resolves to, Null when the path
\* walk fails or finds nothing.
EndPointOf(b) ==
  LET r == SourceResolve(tpl, tpl.bindings[b].to)
  IN IF r.err = "none" THEN r.ref ELSE Null

Mistyped(b) ==
  /\ EndPointOf(b).is # "null"
  /\ EpType(tpl, EndPointOf(b)) # tpl.bindings[b].type

C9_TypeSafety ==
  \A b \in BindingIds :
    /\ Resolved(b).is # "null" =>
         /\ EpType(tpl, Resolved(b)) = tpl.bindings[b].type
         /\ Resolved(b) = EndPointOf(b)
    /\ (tpl.bindings[b].calls > 0 /\ Mistyped(b)) =>
         /\ tpl.err = "type-mismatch"
         /\ pc = "exit"
         /\ Resolved(b).is = "null"
         /\ ~file.written

\* resolve() was called on a binding of type 'text' wired to an output of
\* type 'json': compilation ended.
C9_Witness ==
  /\ tpl.err = "type-mismatch"
  /\ \E b \in BindingIds :
       /\ tpl.bindings[b].calls > 0
       /\ Mistyped(b)
       /\ EndPointOf(b).is = "slot"
       /\ tpl.bindings[b].type = "text"
       /\ EpType(tpl, EndPointOf(b)) = "json"

----------------------------------------------------------------------------
(* C10: dangling reference.  Once resolve() was called on a binding whose  *)
(* argument is a reference with a first path segment that names no         *)
(* instance of the template, compilation has ended with the                *)
(* unknown-instance error and no file is written.                          *)

Dangling(b) ==
  /\ tpl.bindings[b].to.is = "ref"
  /\ Len(tpl.bindings[b].to.path) >= 1
  /\ ~Has(tpl.bound, tpl.bindings[b].to.path[1])

C10_UnknownInstance ==
  \A b \in BindingIds :
    (tpl.bindings[b].calls > 0 /\ Dangling(b)) =>
      /\ tpl.err = "unknown-instance"
      /\ pc = "exit"
      /\ ~file.written

\* What the code does instead: resolve_path returns null without a
\* diagnostic and Binding.resolve reads .type of it; the process ends with
\* an uncaught TypeError.  No file is written.
C10_DanglingThrows ==
  \A b \in BindingIds :
    (tpl.bindings[b].calls > 0 /\ Dangling(b)) =>
      /\ tpl.err = "TypeError"
      /\ pc = "exit"
      /\ ~file.written
      /\ Resolved(b).is = "null"

C10_Witness ==
  \E b \in BindingIds :
    /\ tpl.bindings[b].calls > 0
    /\ Dangling(b)
    /\ tpl.bindings[b].to.path = <<"zz", "out">>

----------------------------------------------------------------------------
(* C11: unknown field.  Once resolve() was called on a binding whose       *)
(* argument names an instance of the template and then a field the         *)
(* instance has not declared as an output, compilation has ended with the  *)
(* no-such-field error, and it ended in resolve_acts: emit_code has pushed *)
(* nothing, no line of any action is in the line buffer, no file written.  *)

UnknownField(b) ==
  LET to == tpl.bindings[b].to
  IN /\ to.is = "ref"
     /\ Len(to.path) >= 2
     /\ Has(tpl.bound, to.path[1])
     /\ ~Has(tpl.insts[tpl.bound[to.path[1]]].fields, to.path[2])

\* Lines that emit_code pushed: the imports, the empty line and the lines
\* of the actions.  (resolve_acts pushes the declarations of the joins.)
EmittedLines == {i \in 1..Len(tpl.lines) : tpl.lines[i].k # "decl"}

C11_UnknownField ==
  \A b \in BindingIds :
    (tpl.bindings[b].calls > 0 /\ UnknownField(b)) =>
      /\ tpl.err = "no-such-field"
      /\ pc = "exit"
      /\ ~file.written
      /\ EmittedLines = {}

\* What the code guarantees: the error and the exit, whenever the binding
\* is resolved; during resolve_acts when an action waits on the binding.
C11_UnknownFieldAborts ==
  \A b \in BindingIds :
    (tpl.bindings[b].calls > 0 /\ UnknownField(b)) =>
      /\ tpl.err = "no-such-field"
      /\ pc = "exit"
      /\ ~file.written
      /\ Resolved(b).is = "null"
      /\ (\E a \in UserActs : b \in Range(tpl.actions[a].wait)) =>
           EmittedLines = {}

\* The binding of an input no action waits on was resolved by the emit
\* callback, after the lines of an earlier root.
C11_Witness ==
  \E b \in BindingIds :
    /\ tpl.bindings[b].calls > 0
    /\ UnknownField(b)
    /\ \E i \in EmittedLines : tpl.lines[i].by \in UserActs

----------------------------------------------------------------------------
(* C12: unique ids.  When the InstanceContext of a use-site has the id of  *)
(* an earlier one, compilation has ended with the duplicate-id error: the  *)
(* later instance is the last one created, its definition has made no call *)
(* (no import, input, output, slot or action of it exists), the id is      *)
(* still bound to the earlier instance, and no file is written.            *)

Untouched(j) ==
  /\ tpl.insts[j].inputs = EmptyMap
  /\ tpl.insts[j].fields = EmptyMap
  /\ tpl.insts[j].locals = EmptyMap
  /\ tpl.insts[j].syms = EmptyMap
  /\ \A b \in BindingIds : tpl.bindings[b].inst # j
  /\ \A s \in SlotIds : tpl.slots[s].inst # j
  /\ \A a \in ActionIds : tpl.actions[a].inst # j

C12_DuplicateId ==
  /\ \A i, j \in 1..Len(tpl.insts) :
       (i < j /\ tpl.insts[i].id = tpl.insts[j].id) =>
         /\ tpl.err = "duplicate-id"
         /\ pc = "exit"
         /\ j = Len(tpl.insts)
         /\ tpl.bound[tpl.insts[j].id] = i
         /\ Untouched(j)
         /\ ~file.written
  /\ \A id \in DOMAIN tpl.bound : tpl.insts[tpl.bound[id]].id = id

\* A second use-site with the id of the first, whose definition had run.
C12_Witness ==
  /\ tpl.err = "duplicate-id"
  /\ \E i, j \in 1..Len(tpl.insts) :
       /\ i < j /\ tpl.insts[i].id = tpl.insts[j].id
       /\ ~Untouched(i)

----------------------------------------------------------------------------
(* C13: missing field.  When the definition of a use-site has run as far   *)
(* as its input declarations and the component declares an input without   *)
(* default that the use-site's arguments omit, compilation has ended with  *)
(* the missing-field error in generate(): the instance is the last one     *)
(* created, no binding exists for the input, the definition went no        *)
(* further (it registered no action), no binding was ever resolved,        *)
(* nothing is scheduled, no line pushed and no file written.               *)

\* The inputs without default that instance i's component declares and its
\* arguments omit.
OmittedInputs(i) ==
  LET defn == components(tpl.insts[i].kind)
  IN {defn[k].name :
        k \in {k \in 1..Len(defn) : /\ defn[k].call = "input"
                                    /\ defn[k].def.jstype = "undefined"
                                    /\ ~Has(tpl.insts[i].args, defn[k].name)}}

\* defn(cs) was called for instance i: bind_inst accepted it.
DefnRan(i) ==
  /\ Has(tpl.bound, tpl.insts[i].id)
  /\ tpl.bound[tpl.insts[i].id] = i

\* ... and the imports() calls that open the definition returned.
ReachedInputs(i) ==
  LET defn == components(tpl.insts[i].kind)
  IN /\ DefnRan(i)
     /\ \A k \in 1..Len(defn) :
          defn[k].call = "imports" => LibsTruthy(defn[k].name)

NothingScheduled ==
  /\ \A b \in BindingIds : tpl.bindings[b].calls = 0
  /\ tpl.roots = <<>>
  /\ \A s \in SlotIds : tpl.slots[s].queued = <<>>
  /\ Actors = {} /\ Helpers = {}
  /\ tpl.lines = <<>>

C13_MissingField ==
  \A i \in 1..Len(tpl.insts) :
    (ReachedInputs(i) /\ OmittedInputs(i) # {}) =>
      /\ tpl.err = "missing-field"
      /\ pc = "exit"
      /\ i = Len(tpl.insts)
      /\ \A n \in OmittedInputs(i) : ~Has(tpl.insts[i].inputs, n)
      /\ \A a \in ActionIds : tpl.actions[a].inst # i
      /\ NothingScheduled
      /\ ~file.written

\* A use-site that gives one input and omits another; earlier use-sites
\* registered their actions.
C13_Witness ==
  /\ tpl.err = "missing-field"
  /\ Len(tpl.acts) >= 1
  /\ \E i \in 1..Len(tpl.insts) :
       /\ DefnRan(i) /\ OmittedInputs(i) # {}
       /\ tpl.insts[i].inputs # EmptyMap

----------------------------------------------------------------------------
(* C14: defaults.  A binding of an input declared with a default, the      *)
(* argument omitted, is bound to a literal holding the default; once       *)
(* resolve() was called on it, it has resolved to that literal, which is a *)
(* constant: whatever the declared type of the input.                      *)

\* The declaration of the input that binding b was created for.
DeclOf(b) ==
  LET defn == components(tpl.insts[tpl.bindings[b].inst].kind)
  IN defn[CHOOSE k \in 1..Len(defn) :
            defn[k].call = "input" /\ defn[k].name = tpl.bindings[b].field]

Defaulted(b) ==
  /\ ~Has(tpl.insts[tpl.bindings[b].inst].args, tpl.bindings[b].field)
  /\ DeclOf(b).def.jstype # "undefined"

C14_DefaultsResolve ==
  \A b \in BindingIds :
    Defaulted(b) =>
      /\ tpl.bindings[b].to.is = "literal"
      /\ tpl.bindings[b].to.value = DeclOf(b).def.value
      /\ tpl.bindings[b].calls > 0 =>
           /\ Resolved(b) = tpl.bindings[b].to
           /\ EpMode(tpl, Resolved(b)) = "const"

\* The type tag the constructor gives the literal of a default.
DefaultTag(def) == IF def.jstype = "string" THEN "text" ELSE def.jstype

\* What the code guarantees: the literal's tag is 'text' for a string and
\* typeof(default) otherwise; the binding resolves to the literal when that
\* tag is the declared type, and ends compilation with the type-mismatch
\* error when it is not ('integer' declared, 'number' found).
C14_DefaultsByTypeof ==
  \A b \in BindingIds :
    Defaulted(b) =>
      /\ tpl.bindings[b].to.is = "literal"
      /\ tpl.bindings[b].to.value = DeclOf(b).def.value
      /\ tpl.bindings[b].to.type = DefaultTag(DeclOf(b).def)
      /\ tpl.bindings[b].calls > 0 =>
           IF DefaultTag(DeclOf(b).def) = tpl.bindings[b].type
           THEN /\ Resolved(b) = tpl.bindings[b].to
                /\ EpMode(tpl, Resolved(b)) = "const"
           ELSE /\ Resolved(b).is = "null"
                /\ tpl.err = "type-mismatch"
                /\ pc = "exit"
                /\ ~file.written

\* resolve() was called on the defaulted 'integer' input; defaulted 'text'
\* and 'boolean' inputs exist beside it.
C14_Witness ==
  /\ \E b \in BindingIds :
       /\ Defaulted(b) /\ tpl.bindings[b].calls > 0
       /\ tpl.bindings[b].type = "integer"
  /\ \E b \in BindingIds :
       /\ Defaulted(b) /\ tpl.bindings[b].calls > 0
       /\ tpl.bindings[b].type = "text"
       /\ Resolved(b).is = "literal"
  /\ \E b \in BindingIds : Defaulted(b) /\ tpl.bindings[b].type = "boolean"

----------------------------------------------------------------------------
(* C15: fail fast.  In every state in which an error was raised - by       *)
(* error() or by an uncaught exception, in generate, resolve_acts or       *)
(* emit_code - the process has exited, no file is written and nothing has  *)
(* run; no step is ever taken from such a state.  The file is written only *)
(* without error, with every use-site expanded, every registered action    *)
(* scheduled and every root emitted; its lines are the line buffer.        *)

AllPhasesDone ==
  /\ Len(tpl.insts) = Len(ast)
  /\ \A i \in 1..Len(ast) : DefnRan(i)
  /\ \A a \in UserActs : Scheduled(a)
  /\ \A p \in 1..Len(tpl.roots) : LinesBy(tpl.lines, tpl.roots[p]) # {}
  /\ \E i \in 1..Len(tpl.lines) : tpl.lines[i].k = "blank"

FailedStop ==
  tpl.err # "none" =>
    /\ pc = "exit"
    /\ ~file.written /\ file.lines = <<>>
    /\ rt = NewRuntime

WrittenWhole ==
  file.written =>
    /\ tpl.err = "none"
    /\ AllPhasesDone
    /\ file.lines = tpl.lines

C15_FailFast ==
  /\ [](FailedStop /\ WrittenWhole /\ (pc = "exit" => tpl.err # "none"))
  /\ [][tpl.err = "none" /\ pc # "exit"]_vars

\* A failure during emission: lines of a root were pushed, nothing written.
C15_Witness ==
  /\ tpl.err \in {"type-mismatch", "no-such-field", "TypeError"}
  /\ pc = "exit"
  /\ \E i \in 1..Len(tpl.lines) : tpl.lines[i].by \in UserActs

----------------------------------------------------------------------------
(* C16: determinism.  generate(ast) as one function of the graph: a fresh  *)
(* TemplateContext, the loop over the use-sites, resolve_acts, emit_code.  *)
(* Every compilation that ended - written or failed - left exactly what    *)
(* another compilation of the same ordered graph in a fresh context        *)
(* leaves: the same lines with the same generated symbols, the same import *)
(* table and uid counters, the same error.                                 *)

\* The loop of generate() over ast[k..]; an error ends the process.
RECURSIVE GenerateLoop(_, _, _)
GenerateLoop(t, g, k) ==
  IF k > Len(g) \/ ~Ok(t) THEN t
  ELSE GenerateLoop(GenerateItem(t, g[k]), g, k + 1)

\* The loop of resolve_acts over this.acts[k..].
RECURSIVE ResolveLoop(_, _)
ResolveLoop(t, k) ==
  IF k > Len(t.acts) \/ ~Ok(t) THEN t
  ELSE ResolveLoop(ResolveAct(t, t.acts[k]), k + 1)

\* The loop of emit_code over this.roots[k..].
RECURSIVE EmitLoop(_, _)
EmitLoop(t, k) ==
  IF k > Len(t.roots) \/ ~Ok(t) THEN t
  ELSE EmitLoop(EmitRoot(t, t.roots[k]), k + 1)

\* generate(ast) run in template context t0.
Compilation(t0, g) ==
  LET t1 == GenerateLoop(t0, g, 1)
      t2 == ResolveLoop(t1, 1)
  IN IF ~Ok(t2) THEN t2 ELSE EmitLoop(EmitImports(t2), 1)

\* (mutant) the uid counters outlive the template context.
generateSharedUids(g) ==
  Compilation([NewTemplateContext("main") EXCEPT !.uidMap = tpl.uidMap], g)

generate(g) == Compilation(NewTemplateContext("main"), g)

Ended == file.written \/ pc = "exit"

----------------------------------------------------------------------------
(* C17: imports.  The import table never holds two entries for one name,   *)
(* every entry is a library of the table libs with a symbol of its own,    *)
(* and every instance whose definition called imports(name) for a library  *)
(* of libs holds the table's symbol for it.  After emission the program    *)
(* has exactly one import line per table entry, requiring the library's    *)
(* path under that symbol.  When a definition has called imports() with a  *)
(* name that is no library of libs, compilation has ended with the         *)
(* unknown-import error, the table has no entry for the name and the       *)
(* definition went no further.                                             *)

\* The names instance i's definition passes to imports().
ImportedBy(i) ==
  LET defn == components(tpl.insts[i].kind)
  IN {defn[k].name : k \in {k \in 1..Len(defn) : defn[k].call = "imports"}}

TableSyms(name) ==
  {tpl.imports[k].sym : k \in ImportIndex(tpl, name)}

ImportLines(sym) ==
  {i \in 1..Len(tpl.lines) :
     tpl.lines[i].k = "import" /\ tpl.lines[i].x = sym}

\* One entry per name, one symbol per entry, one line per entry.
OneSymbolPerName ==
  /\ \A k1, k2 \in 1..Len(tpl.imports) :
       (k1 # k2) => /\ tpl.imports[k1].lib # tpl.imports[k2].lib
                    /\ tpl.imports[k1].sym # tpl.imports[k2].sym
  /\ EmitDone =>
       /\ \A k \in 1..Len(tpl.imports) :
            Cardinality(ImportLines(tpl.imports[k].sym)) = 1
       /\ Cardinality({i \in 1..Len(tpl.lines) : tpl.lines[i].k = "import"})
            = Len(tpl.imports)

Imported(i, name) ==
  /\ Has(tpl.insts[i].syms, name)
  /\ TableSyms(name) = {tpl.insts[i].syms[name]}

Refused(i, name) ==
  /\ tpl.err = "unknown-import"
  /\ pc = "exit"
  /\ TableSyms(name) = {}
  /\ tpl.insts[i].inputs = EmptyMap
  /\ \A a \in ActionIds : tpl.actions[a].inst # i
  /\ ~file.written

C17_ImportsDeduplicated ==
  /\ OneSymbolPerName
  /\ \A k \in 1..Len(tpl.imports) :
       /\ Has(libs, tpl.imports[k].lib)
       /\ EmitDone =>
            \A i \in ImportLines(tpl.imports[k].sym) :
              tpl.lines[i].text =
                "var " \o tpl.imports[k].sym \o " = require(\""
                  \o libs[tpl.imports[k].lib] \o "\");"
  /\ \A i \in 1..Len(tpl.insts) : \A name \in ImportedBy(i) :
       DefnRan(i) =>
         IF Has(libs, name) THEN Imported(i, name) ELSE Refused(i, name)

\* What the code guarantees: the same, with "libs[name] is truthy" in the
\* place of "name is a library of libs".  A name libs inherits from
\* Object.prototype is imported like a library, and its import line
\* requires the text of the inherited function.
C17_ImportsByLookup ==
  /\ OneSymbolPerName
  /\ \A k \in 1..Len(tpl.imports) :
       /\ LibsTruthy(tpl.imports[k].lib)
       /\ EmitDone =>
            \A i \in ImportLines(tpl.imports[k].sym) :
              tpl.lines[i].text =
                "var " \o tpl.imports[k].sym \o " = require(\""
                  \o LibsText(tpl.imports[k].lib) \o "\");"
  /\ \A i \in 1..Len(tpl.insts) : \A name \in ImportedBy(i) :
       DefnRan(i) =>
         IF LibsTruthy(name) THEN Imported(i, name) ELSE Refused(i, name)

\* imports('toString') was accepted and the program written with the line
\* that requires the text of a function.
C17_Witness ==
  /\ file.written
  /\ \E k \in 1..Len(tpl.imports) :
       /\ ~Has(libs, tpl.imports[k].lib)
       /\ \E i \in 1..Len(file.lines) :
            file.lines[i].text =
              "var toString_1 = require(\"function toString() { [native code] }\");"

\* Three instances called imports('fs'): one entry, one line.
C17_SharedSymbol ==
  /\ EmitDone
  /\ Len(tpl.imports) = 1
  /\ Cardinality({i \in 1..Len(tpl.insts) : "fs" \in ImportedBy(i)}) >= 3
  /\ Cardinality(ImportLines(tpl.imports[1].sym)) = 1

\* A definition called imports('http') after another instance had imported
\* fs: refused.
C17_UnknownRefused ==
  /\ tpl.err = "unknown-import"
  /\ Len(tpl.imports) = 1

----------------------------------------------------------------------------
(* C18: deep paths.  A reference of three or more segments whose first     *)
(* segment names an instance and whose second names a field the instance   *)
(* declared resolves to a slot or a literal; resolving a binding to it     *)
(* does not end compilation with a path error.                             *)

DeepPath(b) ==
  LET to == tpl.bindings[b].to
  IN /\ to.is = "ref"
     /\ Len(to.path) >= 3
     /\ Has(tpl.bound, to.path[1])
     /\ Has(tpl.insts[tpl.bound[to.path[1]]].fields, to.path[2])

C18_DeepPathRejected ==
  \A b \in BindingIds :
    DeepPath(b) =>
      /\ SourceResolve(tpl, tpl.bindings[b].to).err = "no-fields"
      /\ tpl.bindings[b].calls > 0 =>
           /\ tpl.err = "no-fields"
           /\ pc = "exit"
           /\ Resolved(b).is = "null"
           /\ ~file.written

\* Every field of every instance is a slot: no field leads any further.
C18_FieldsAreSlots ==
  \A i \in 1..Len(tpl.insts) : \A f \in DOMAIN tpl.insts[i].fields :
    /\ tpl.insts[i].fields[f] \in SlotIds
    /\ tpl.slots[tpl.insts[i].fields[f]].is = "slot"

----------------------------------------------------------------------------
(* C19: placement.  Compilation never ends because of the number of        *)
(* dependencies of an action.  Once resolve_acts is through, every         *)
(* registered action is in exactly one place, decided by how many of its   *)
(* waited bindings resolved to slots: none - once in the roots; one - once *)
(* in the queue of that slot; two or more - under exactly one actor, which *)
(* is once in the roots, with one helper per waited slot, the k-th helper  *)
(* once in the queue of the k-th slot and nowhere else.                    *)

\* The slots the waited bindings of action a resolved to, in order.
SlotsWaited(a) ==
  LET w == tpl.actions[a].wait
      F[k \in 0..Len(w)] ==
        IF k = 0 THEN <<>>
        ELSE IF Resolved(w[k]).is = "slot"
             THEN Append(F[k - 1], Resolved(w[k]).id)
        ELSE F[k - 1]
  IN F[Len(w)]

\* Where action x stands in the queues: the pairs <<slot, position>>.
QueuePlaces(x) ==
  {sp \in SlotIds \X ActionIds :
     /\ sp[2] <= Len(tpl.slots[sp[1]].queued)
     /\ tpl.slots[sp[1]].queued[sp[2]] = x}

\* How often x is wrapped: by actors and as the origin of helpers.
Wrappers(x) == ActorsOf(x) \cup HelpersOf(x)

ResolveActsDone == pc \in {"emit_code", "write", "node", "event_loop"}

PlacedOnce(a) ==
  LET S == SlotsWaited(a)
  IN CASE Len(S) = 0 ->
            /\ Count(tpl.roots, a) = 1
            /\ QueuePlaces(a) = {}
            /\ Wrappers(a) = {}
       [] Len(S) = 1 ->
            /\ Count(tpl.roots, a) = 0
            /\ Cardinality(QueuePlaces(a)) = 1
            /\ \A sp \in QueuePlaces(a) : sp[1] = S[1]
            /\ Wrappers(a) = {}
       [] OTHER ->
            /\ Count(tpl.roots, a) = 0
            /\ QueuePlaces(a) = {}
            /\ Cardinality(ActorsOf(a)) = 1
            /\ \A k \in ActorsOf(a) :
                 /\ Count(tpl.roots, k) = 1
                 /\ QueuePlaces(k) = {}
            /\ Cardinality(HelpersOf(a)) = Len(S)
            /\ \E h \in [1..Len(S) -> HelpersOf(a)] :
                 /\ \A i, j \in 1..Len(S) : i # j => h[i] # h[j]
                 /\ \A i \in 1..Len(S) :
                      /\ tpl.actions[h[i]].need = S[i]
                      /\ Count(tpl.roots, h[i]) = 0
                      /\ Cardinality(QueuePlaces(h[i])) = 1
                      /\ \A sp \in QueuePlaces(h[i]) : sp[1] = S[i]

----------------------------------------------------------------------------
(* C20: resolution before emission.  From the moment emit_code begins,     *)
(* every binding of the template has its end-point memoized; emit_code     *)
(* resolves no binding for the first time and raises no resolution error.  *)

Waited(b) == \E a \in UserActs : b \in Range(tpl.actions[a].wait)

EmissionBegun == pc = "emit_code" \/ EmitDone

C20_ResolvedBeforeEmission ==
  /\ EmissionBegun => \A b \in BindingIds : Resolved(b).is # "null"
  /\ (pc = "exit" /\ \E i \in 1..Len(tpl.lines) : tpl.lines[i].k = "blank")
       => tpl.err \notin {"type-mismatch", "no-such-field", "no-fields",
                          "TypeError"}

\* What the code guarantees: resolve_acts resolves the bindings in the wait
\* lists of the actions, each source walked once; a binding no action waits
\* on is untouched until an emit callback resolves it.
C20_WaitedResolved ==
  /\ \A b \in BindingIds : tpl.bindings[b].walks <= 1
  /\ EmissionBegun => \A b \in BindingIds : Waited(b) => Resolved(b).is # "null"
  /\ (pc \in {"generate", "resolve_acts"} \/ (pc = "emit_code" /\ ix = 0)) =>
       \A b \in BindingIds : ~Waited(b) => tpl.bindings[b].calls = 0

\* The program is emitted; a binding no action waits on was resolved, by
\* the emit callback of its instance.
C20_Witness ==
  /\ EmitDone
  /\ \E b \in BindingIds :
       /\ ~Waited(b)
       /\ tpl.bindings[b].walks = 1
       /\ Resolved(b).is = "literal"

\* A type mismatch raised by emit_code, after lines of other roots.
C20_LateMismatch ==
  /\ pc = "exit" /\ tpl.err = "type-mismatch"
  /\ \E i \in 1..Len(tpl.lines) : tpl.lines[i].by \in UserActs
  /\ \E b \in BindingIds : ~Waited(b) /\ Mistyped(b) /\ tpl.bindings[b].calls = 1

----------------------------------------------------------------------------
(* C21: memoized resolution.  The source of a binding is resolved and      *)
(* type-checked at most once, however often resolve() is called; a         *)
(* memoized end-point is what that one resolution of the source returned;  *)
(* a further call of resolve() returns the memoized end-point and changes  *)
(* nothing but the count of calls; no step of the compiler changes an      *)
(* end-point once it is memoized.                                          *)

Memoized(b) == Resolved(b).is # "null"

MemoSound ==
  \A b \in BindingIds :
    /\ tpl.bindings[b].walks <= 1
    /\ tpl.bindings[b].walks <= tpl.bindings[b].calls
    /\ tpl.bindings[b].calls > 0 => tpl.bindings[b].walks = 1
    /\ Memoized(b) =>
         /\ tpl.bindings[b].walks = 1
         /\ Resolved(b) = EndPointOf(b)
         /\ Ok(tpl) =>
              /\ BindingResolve(tpl, b).ref = Resolved(b)
              /\ BindingResolve(tpl, b).tpl =
                   [tpl EXCEPT !.bindings[b].calls = @ + 1]

MemoKept ==
  \A b \in BindingIds :
    Memoized(b) =>
      /\ tpl'.bindings[b].resolved = tpl.bindings[b].resolved
      /\ tpl'.bindings[b].walks = tpl.bindings[b].walks
      /\ tpl'.bindings[b].calls >= tpl.bindings[b].calls

C21_ResolveMemoized == [](MemoSound) /\ [][MemoKept]_vars

\* resolve() was called three times or more on a binding to an output:
\* by resolve_acts and by the emit callback.
C21_Witness ==
  \E b \in BindingIds :
    /\ tpl.bindings[b].calls >= 3
    /\ tpl.bindings[b].walks = 1
    /\ Resolved(b).is = "slot"

----------------------------------------------------------------------------
(* C22: shared variables of a join.  In the emitted program of an acyclic  *)
(* graph, every capture variable of a join is assigned by exactly one      *)
(* helper, in one line, and is read by no callback but the actor function  *)
(* of that join; the counter is declared once with the number of helpers,  *)
(* is decremented and tested by every helper of the join, once each, and   *)
(* is not read by the body in the actor function.                          *)

\* The symbols the body of action a reads in context es: the interpolations
\* of its templates that come from inputs.
InputReads(a, es) ==
  LET body == tpl.actions[a].body
      P == UNION {{<<i, j>> : j \in {j \in 1..Len(body[i].parts) :
                     body[i].parts[j].t \in {"string", "asBool"}}} :
                  i \in 1..Len(body)}
  IN {Piece(tpl, es, a, body[p[1]].parts[p[2]]).str : p \in P}

JoinCaptures(k) ==
  {tpl.actions[h].capture : h \in HelpersOf(tpl.actions[k].of)}

\* The callbacks whose lines assign to, or decrement, variable v.
Writers(v) ==
  {tpl.lines[i].by :
     i \in {i \in 1..Len(tpl.lines) :
              tpl.lines[i].k \in {"cap", "decr"} /\ tpl.lines[i].x = v}}

WriteLines(v, h) ==
  {i \in LinesBy(tpl.lines, h) :
     tpl.lines[i].k \in {"cap", "decr"} /\ tpl.lines[i].x = v}

\* The actors whose function body reads v.
ActorReaders(v) ==
  {k \in Actors : v \in InputReads(tpl.actions[k].of, ActorContext(k))}

\* Is v read by a body rendered outside every actor function?
ReadOutside(v) == \E a \in UserActs : v \in InputReads(a, PlainContext)

Emitted == EmitDone /\ Ok(tpl) /\ Acyclic

\* The claim as stated: one writer and one reader for the counter and for
\* each capture.
C22_OneWriterOneReader ==
  Emitted =>
    \A k \in Actors :
      \A v \in {tpl.actions[k].counterVar} \cup JoinCaptures(k) :
        /\ Cardinality(Writers(v)) = 1
        /\ Cardinality(ActorReaders(v)) = 1

C22_SharedVariables ==
  Emitted =>
    \A k \in Actors :
      LET H == HelpersOf(tpl.actions[k].of)
          c == tpl.actions[k].counterVar
      IN /\ Cardinality(JoinCaptures(k)) = JoinWidth(k)
         /\ \A h \in H :
              /\ Writers(tpl.actions[h].capture) = {h}
              /\ Cardinality(WriteLines(tpl.actions[h].capture, h)) = 1
              /\ ActorReaders(tpl.actions[h].capture) \subseteq {k}
              /\ ~ReadOutside(tpl.actions[h].capture)
              /\ Cardinality(WriteLines(c, h)) = 1
         /\ Writers(c) = H
         /\ Cardinality(H) = JoinWidth(k)
         /\ Cardinality({i \in 1..Len(tpl.lines) :
                           /\ tpl.lines[i].k = "decl"
                           /\ tpl.lines[i].x = c
                           /\ tpl.lines[i].n = JoinWidth(k)}) = 1
         /\ ActorReaders(c) = {}
         /\ ~ReadOutside(c)

\* The program of a join of MaxJoin producers is emitted, its body reading
\* every capture.
C22_Witness ==
  /\ Emitted
  /\ \E k \in Actors :
       /\ JoinWidth(k) = MaxJoin
       /\ \A v \in JoinCaptures(k) : ActorReaders(v) = {k}

\* A join on one slot twice: a capture is assigned and nothing reads it.
C22_UnreadCapture ==
  /\ Emitted
  /\ \E k \in Actors : \E v \in JoinCaptures(k) :
       /\ Writers(v) # {}
       /\ ActorReaders(v) = {}
----------------------------------------------------------------------------
(* C23: unique symbols.  In every state of a compilation the symbols the   *)
(* template context has handed out - one per output and private slot, one  *)
(* per imported library, one per cs.uid() call, and the counter, the actor *)
(* and one capture per dependency of every join - are pairwise distinct,   *)
(* also when the base name of one is the symbol handed out for another;    *)
(* and each has the form base name, underscore, number, the number at most *)
(* the count uidMap keeps for that base name.                              *)

Handed(by, at, base, sym) ==
  [by |-> by, at |-> at, base |-> base, sym |-> sym]

\* The names under which the component of instance i calls cs.uid().
UidNames(i) ==
  LET d == components(tpl.insts[i].kind)
  IN {d[c].name : c \in {c \in 1..Len(d) : d[c].call = "uid"}}

HandedOut ==
  {Handed("slot", s, tpl.slots[s].field, tpl.slots[s].slot) : s \in SlotIds}
  \cup {Handed("imports", k, tpl.imports[k].lib, tpl.imports[k].sym) :
          k \in 1..Len(tpl.imports)}
  \cup UNION {{Handed("uid", i, n, tpl.insts[i].syms[n]) :
                 n \in UidNames(i) \cap DOMAIN tpl.insts[i].syms} :
              i \in 1..Len(tpl.insts)}
  \cup {Handed("counter", k, "counter", tpl.actions[k].counterVar) :
          k \in Actors}
  \cup {Handed("actor", k, "actor", tpl.actions[k].actorVar) : k \in Actors}
  \cup {Handed("capture", h, tpl.slots[tpl.actions[h].need].slot,
               tpl.actions[h].capture) : h \in Helpers}

Numbered(x) ==
  /\ Has(tpl.uidMap, x.base)
  /\ \E n \in 1..tpl.uidMap[x.base] : x.sym = x.base \o "_" \o ToString(n)

C23_UniqueSymbols ==
  /\ \A x, y \in HandedOut : x.sym = y.sym => x = y
  /\ \A x \in HandedOut : Numbered(x)
  /\ \A name \in DOMAIN tpl.uidMap :
       Cardinality({x \in HandedOut : x.base = name}) = tpl.uidMap[name]

\* A join is scheduled in a template where the base name of a slot, of a
\* private symbol and of a capture are each the symbol of something else.
C23_Witness ==
  /\ ResolveActsDone /\ Ok(tpl)
  /\ \E x, y \in HandedOut : x.by = "slot" /\ y.by = "slot" /\ x.base = y.sym
  /\ \E x, y \in HandedOut : x.by = "uid" /\ y.by = "imports" /\ x.base = y.sym
  /\ \E x, y \in HandedOut :
       /\ x.by = "capture" /\ y.by = "slot" /\ x # y
       /\ \E z \in HandedOut : z.by = "slot" /\ z.sym = x.base /\ y.base = x.base
----------------------------------------------------------------------------
(* C24: private slots.  A slot declared with cs.slot() is a once-mode      *)
(* ValueSlot with a symbol no other slot has, and is not in the field map  *)
(* of its instance; a slot declared with cs.output() is such a ValueSlot   *)
(* and is in the field map under its name; the field map of an instance    *)
(* holds its outputs and nothing else.  When resolve() is called on a      *)
(* binding to <instance>.<name of a private slot>, compilation stops with  *)
(* the no-such-field error and the binding stays unresolved; a binding to  *)
(* <instance>.<name of an output> resolves to that output's slot.          *)

\* The names component `is` declares with the given call of cs.
Declared(is, call) ==
  LET d == components(is)
  IN {d[c].name : c \in {c \in 1..Len(d) : d[c].call = call}}

IsPrivate(s) ==
  tpl.slots[s].field \in Declared(tpl.insts[tpl.slots[s].inst].kind, "slot")

IsOutput(s) ==
  tpl.slots[s].field \in Declared(tpl.insts[tpl.slots[s].inst].kind, "output")

\* Binding b refers to field `name` of a bound instance by a two-segment path.
RefersTo(b, i, name) ==
  LET to == tpl.bindings[b].to
  IN /\ to.is = "ref"
     /\ to.path = <<tpl.insts[i].id, name>>
     /\ Has(tpl.bound, tpl.insts[i].id)
     /\ tpl.bound[tpl.insts[i].id] = i

C24_PrivateSlot ==
  /\ \A s \in SlotIds :
       LET i == tpl.slots[s].inst
       IN /\ tpl.slots[s].is = "slot"
          /\ tpl.slots[s].mode = "once"
          /\ \A o \in SlotIds \ {s} : tpl.slots[o].slot # tpl.slots[s].slot
          /\ IsPrivate(s) # IsOutput(s)
          /\ IsPrivate(s) => ~Has(tpl.insts[i].fields, tpl.slots[s].field)
          /\ IsOutput(s) =>
               /\ Has(tpl.insts[i].fields, tpl.slots[s].field)
               /\ tpl.insts[i].fields[tpl.slots[s].field] = s
          /\ \A b \in BindingIds :
               (RefersTo(b, i, tpl.slots[s].field)
                  /\ tpl.bindings[b].calls > 0) =>
                 /\ IsPrivate(s) =>
                      /\ tpl.err = "no-such-field"
                      /\ pc = "exit"
                      /\ Resolved(b) = Null
                 /\ IsOutput(s) =>
                      /\ Resolved(b) \in {Null, SlotRef(s)}
                      /\ Resolved(b) = Null => tpl.err = "type-mismatch"
  /\ \A i \in 1..Len(tpl.insts) :
       \A n \in DOMAIN tpl.insts[i].fields :
         /\ tpl.insts[i].fields[n] \in SlotIds
         /\ IsOutput(tpl.insts[i].fields[n])
         /\ tpl.slots[tpl.insts[i].fields[n]].inst = i
         /\ tpl.slots[tpl.insts[i].fields[n]].field = n

\* Compilation stopped at a reference to a private slot whose type is the
\* type wanted, after a reference to an output of the same instance was
\* resolved.
C24_Witness ==
  /\ pc = "exit" /\ tpl.err = "no-such-field"
  /\ \E s, o \in SlotIds : \E b, c \in BindingIds :
       /\ IsPrivate(s) /\ IsOutput(o)
       /\ tpl.slots[s].inst = tpl.slots[o].inst
       /\ RefersTo(b, tpl.slots[s].inst, tpl.slots[s].field)
       /\ tpl.bindings[b].calls = 1
       /\ tpl.slots[s].type = tpl.bindings[b].type
       /\ RefersTo(c, tpl.slots[o].inst, tpl.slots[o].field)
       /\ Resolved(c) = SlotRef(o)
----------------------------------------------------------------------------
(* C25: termination.  Every compilation, of cyclic wiring too, ends, with  *)
(* the program written or with an error: until then the compiler always    *)
(* has a step to take, every step moves to the next index of its loop or   *)
(* to a later phase, the loop of generate() runs at most once per          *)
(* use-site, the loop of resolve_acts at most once per registered action   *)
(* and the loop of emit_code at most once per root.  Within the steps, the *)
(* emit callback of every action - component's action, actor or helper -   *)
(* runs at most once, whatever emit_triggered recursed through.            *)

\* How many lines one run of the emit callback of action a pushes.
LinesPerRun(a) ==
  IF tpl.actions[a].kind = "actor" THEN 2 ELSE BodyLines(a)

VisitedAtMostOnce ==
  \A a \in ActionIds :
    /\ Cardinality(LinesBy(tpl.lines, a)) <= LinesPerRun(a)
    /\ \A k \in {"fn", "fnend", "cap", "decr"} :
         Cardinality(LinesOfKind(tpl.lines, a, k)) <= 1

LoopsBounded ==
  /\ Len(tpl.insts) <= Len(ast)
  /\ Len(tpl.acts) <= Len(ast)
  /\ Len(tpl.roots) <= Len(tpl.acts)

\* The compiler has a step to take: it is in one of its phases and the
\* entry its loop reads next is there.
CanStep ==
  \/ pc = "generate" /\ ix \in 1..Len(ast)
  \/ pc = "resolve_acts" /\ ix \in 1..Len(tpl.acts)
  \/ pc = "emit_code" /\ ix \in 0..Len(tpl.roots)
  \/ pc = "write"

\* Every step of the compiler moves on: to the next index of its loop, to a
\* later phase, or out.
Phase(p) ==
  CASE p = "generate" -> 1 [] p = "resolve_acts" -> 2 [] p = "emit_code" -> 3
    [] p = "write" -> 4 [] OTHER -> 5

Advances ==
  Compiler =>
    \/ Phase(pc') > Phase(pc)
    \/ Phase(pc') = Phase(pc) /\ ix' = ix + 1

C25_Terminates ==
  /\ [](VisitedAtMostOnce /\ LoopsBounded /\ (~Ended => CanStep))
  /\ [][Advances]_vars

\* The program of a graph with cyclic wiring was written.
C25_Witness ==
  /\ file.written
  /\ ~Acyclic
  /\ \E a \in UserActs : LinesBy(file.lines, a) # {}
----------------------------------------------------------------------------
(* C26: order independence of resolution.  While generate() is still       *)
(* constructing instances no binding has been resolved.  A binding to      *)
(* <id>.<output> on which resolve() was called is resolved to that output  *)
(* of the instance bound to <id>, or stopped compilation on its type,      *)
(* whether that instance is listed before or after the referring use-site. *)
(* When a program is written, compiling any reordering of the use-sites    *)
(* succeeds too and resolves every input to the same end-point: the same   *)
(* literal, or the same output of the same instance.                       *)

\* Where the inputs of template t are wired, by instance id and field name.
Wiring(t) ==
  {[of |-> t.insts[t.bindings[b].inst].id,
    input |-> t.bindings[b].field,
    to |-> IF t.bindings[b].resolved.is = "slot"
           THEN <<t.insts[t.slots[t.bindings[b].resolved.id].inst].id,
                  t.slots[t.bindings[b].resolved.id].field>>
           ELSE <<>>,
    literal |-> IF t.bindings[b].resolved.is = "literal"
                THEN t.bindings[b].resolved
                ELSE Null] : b \in 1..Len(t.bindings)}

\* Binding b names an output of a bound instance.
NamesOutput(b) ==
  LET to == tpl.bindings[b].to
  IN /\ to.is = "ref"
     /\ Len(to.path) = 2
     /\ Has(tpl.bound, to.path[1])
     /\ Has(tpl.insts[tpl.bound[to.path[1]]].fields, to.path[2])

OutputNamed(b) ==
  tpl.insts[tpl.bound[tpl.bindings[b].to.path[1]]].fields[
    tpl.bindings[b].to.path[2]]

ForwardRef(b) ==
  NamesOutput(b) /\ tpl.bound[tpl.bindings[b].to.path[1]] > tpl.bindings[b].inst

C26_OrderIndependent ==
  /\ pc = "generate" =>
       \A b \in BindingIds : tpl.bindings[b].calls = 0 /\ Resolved(b) = Null
  /\ \A b \in BindingIds :
       (tpl.bindings[b].calls > 0 /\ NamesOutput(b)) =>
         \/ Resolved(b) = SlotRef(OutputNamed(b))
         \/ /\ Resolved(b) = Null
            /\ tpl.err = "type-mismatch"
            /\ tpl.slots[OutputNamed(b)].type # tpl.bindings[b].type
  /\ pc = "write" =>
       \A g \in Reorderings(ast) :
         /\ Ok(generate(g))
         /\ Wiring(generate(g)) = Wiring(tpl)

\* A program is written in which a consumer listed before its producer is
\* wired to it, and so is a join listed before both of its producers.
C26_Witness ==
  /\ pc = "write"
  /\ \E b \in BindingIds : ForwardRef(b) /\ Resolved(b).is = "slot"
  /\ \E a \in UserActs :
       /\ Len(tpl.actions[a].needs) >= 2
       /\ \A n \in 1..Len(tpl.actions[a].wait) :
            ForwardRef(tpl.actions[a].wait[n])
----------------------------------------------------------------------------
(* C27: a join on one slot twice.  Once resolve_acts has been through an   *)
(* action whose two waited bindings resolved to the same slot there are:   *)
(* one counter declaration, initialised to 2; one actor, once in the root  *)
(* list; two helpers with distinct capture symbols, both in the queue of   *)
(* that slot and in no other, in the order of the bindings; the action     *)
(* itself in no root list and no queue.  The producer of the slot emits    *)
(* the four lines of the two helpers in a row.  When the emitted program   *)
(* runs, the first time the slot is produced the two assignments and the   *)
(* two decrements run in sequence, the second decrement calls the actor    *)
(* function, and the body has then been entered exactly once.              *)

SameSlotJoin(a) ==
  /\ Scheduled(a)
  /\ Len(tpl.actions[a].wait) = 2
  /\ Resolved(tpl.actions[a].wait[1]).is = "slot"
  /\ Resolved(tpl.actions[a].wait[1]) = Resolved(tpl.actions[a].wait[2])

\* The positions of the queue of slot s that hold action h.
QueuedAt(s, h) ==
  {p \in 1..Len(tpl.slots[s].queued) : tpl.slots[s].queued[p] = h}

\* The four lines of helpers h1 and h2, in a row in the line sequence L.
InARow(L, h1, h2) ==
  \E i \in 1..(Len(L) - 3) :
    /\ LinesBy(L, h1) = {i, i + 1}
    /\ LinesBy(L, h2) = {i + 2, i + 3}
    /\ L[i].k = "cap" /\ L[i + 1].k = "decr"
    /\ L[i + 2].k = "cap" /\ L[i + 3].k = "decr"
    /\ L[i].x = tpl.actions[h1].capture
    /\ L[i + 2].x = tpl.actions[h2].capture
    /\ L[i].y = L[i + 2].y
    /\ L[i + 1].x = L[i + 3].x
    /\ \A j \in i..(i + 3) :
         L[j].parent = L[i].parent /\ L[j].prefix = L[i].prefix

\* The run of the two helpers: four lines executed one after the other,
\* then the call of the actor function of k.
RanInSequence(k, h1) ==
  LET i == First(LinesBy(file.lines, h1))
  IN \A p \in At("exec", i) :
       /\ p + 4 <= Len(rt.trace)
       /\ rt.trace[p + 1] = Ev("exec", i + 1)
       /\ rt.trace[p + 2] = Ev("exec", i + 2)
       /\ rt.trace[p + 3] = Ev("exec", i + 3)
       /\ rt.trace[p + 4] =
            Ev("call", FnLine(file.lines, tpl.actions[k].actorVar))

C27_SameSlotJoin ==
  \A a \in UserActs :
    SameSlotJoin(a) =>
      LET s == Resolved(tpl.actions[a].wait[1]).id
          K == ActorsOf(a)
          H == HelpersOf(a)
      IN /\ tpl.actions[a].needs = <<s, s>>
         /\ Cardinality(K) = 1
         /\ Cardinality(H) = 2
         /\ a \notin Range(tpl.roots)
         /\ \A o \in SlotIds : a \notin Range(tpl.slots[o].queued)
         /\ \A k \in K : \E h1, h2 \in H :
              /\ Count(tpl.roots, k) = 1
              /\ Cardinality({i \in 1..Len(tpl.lines) :
                                /\ tpl.lines[i].k = "decl"
                                /\ tpl.lines[i].x = tpl.actions[k].counterVar
                                /\ tpl.lines[i].n = 2}) = 1
              /\ tpl.actions[h1].need = s /\ tpl.actions[h2].need = s
              /\ tpl.actions[h1].capture # tpl.actions[h2].capture
              /\ Cardinality(QueuedAt(s, h1)) = 1
              /\ Cardinality(QueuedAt(s, h2)) = 1
              /\ \A p \in QueuedAt(s, h1) : QueuedAt(s, h2) = {p + 1}
              /\ \A o \in SlotIds \ {s} :
                   /\ h1 \notin Range(tpl.slots[o].queued)
                   /\ h2 \notin Range(tpl.slots[o].queued)
              /\ (EmitDone /\ LinesBy(tpl.lines, h1) # {}) =>
                   InARow(tpl.lines, h1, h2)
              /\ (pc = "event_loop" /\ LinesBy(file.lines, h1) # {}) =>
                   /\ Cardinality(ActorCalls(k)) <= 1
                   /\ RanInSequence(k, h1)
                   /\ Cardinality(At("exec", First(LinesBy(file.lines, h1))))
                        = Cardinality(ActorCalls(k))
                   /\ Cardinality(At("exec", First(LinesBy(file.lines, a))))
                        = Cardinality(ActorCalls(k))

\* The slot of such a join was produced: the actor function has been
\* called and the body has run.
C27_Witness ==
  /\ pc = "event_loop"
  /\ \E a \in UserActs :
       /\ SameSlotJoin(a)
       /\ \A k \in ActorsOf(a) : Cardinality(ActorCalls(k)) = 1
       /\ \E i \in LinesBy(file.lines, a) : At("exec", i) # {}
----------------------------------------------------------------------------
(* C28: nested joins.  Let J2 be a join one of whose dependencies is the   *)
(* output of the body of another join J1.  In the emitted program of an    *)
(* acyclic graph the two lines of J2's helper for that output lie inside   *)
(* J1's actor function, after the line of J1's body that introduces the    *)
(* output, and assign J2's capture from the output's symbol; J2's body is  *)
(* rendered inside J2's own actor function and reads that dependency as    *)
(* J2's capture, never as the output's symbol or a capture of J1.  While   *)
(* the program runs, in whatever order the callbacks fire, J2's actor      *)
(* function is called at most once, only after J1's body has run and all   *)
(* helpers of J2 have run, and J2's body is entered once per call; when no *)
(* callback is left to fire it has been called exactly once.               *)

IsJoin(a) == a \in UserActs /\ Scheduled(a) /\ Len(tpl.actions[a].needs) >= 2

\* The action of the instance that owns slot s.
ProducerOf(s) ==
  {a \in UserActs : tpl.actions[a].inst = tpl.slots[s].inst}

\* J2 is a join that depends on slot s, which the body of join J1 produces.
NestedOn(j2, j1, s) ==
  /\ IsJoin(j1) /\ IsJoin(j2) /\ j1 # j2
  /\ s \in Range(tpl.actions[j2].needs)
  /\ j1 \in ProducerOf(s)

FnOf(L, k) == First(LinesOfKind(L, k, "fn"))
FnEndOf(L, k) == First(LinesOfKind(L, k, "fnend"))

\* The waited bindings of action a that resolved to slot s.
WaitedOn(a, s) ==
  {b \in Range(tpl.actions[a].wait) : Resolved(b) = SlotRef(s)}

C28_NestedJoins ==
  \A j1, j2 \in UserActs : \A s \in SlotIds :
    (NestedOn(j2, j1, s) /\ EmitDone /\ Acyclic) =>
      \A k1 \in ActorsOf(j1) : \A k2 \in ActorsOf(j2) :
        \A h \in {h \in HelpersOf(j2) : tpl.actions[h].need = s} :
          LET L == tpl.lines
              H == LinesBy(L, h)
          IN /\ Cardinality(H) = 2
             /\ \A i \in H :
                  /\ FnOf(L, k1) < i /\ i < FnEndOf(L, k1)
                  /\ L[i].parent = j1
                  /\ \E d \in LinesBy(L, j1) :
                       d < i /\ L[d].x = tpl.slots[s].slot
             /\ L[First(H)].text =
                  L[First(H)].prefix \o tpl.actions[h].capture \o " = "
                    \o tpl.slots[s].slot \o ";"
             /\ \A i \in LinesBy(L, j2) :
                  /\ FnOf(L, k2) < i /\ i < FnEndOf(L, k2)
                  /\ ~(FnOf(L, k1) < i /\ i < FnEndOf(L, k1))
             /\ ConcatJoinLine(k2)
             /\ \A b \in WaitedOn(j2, s) :
                  LET str == EsString(tpl, ActorContext(k2), b).str
                  IN /\ str \in CapturesFor(k2, s)
                     /\ str # tpl.slots[s].slot
                     /\ str \notin JoinCaptures(k1)
             /\ pc = "event_loop" =>
                  /\ Cardinality(ActorCalls(k2)) <= 1
                  /\ Cardinality(At("exec", First(LinesBy(file.lines, j2))))
                       = Cardinality(ActorCalls(k2))
                  /\ \A p \in ActorCalls(k2) :
                       /\ \E q \in ActorCalls(k1) : q < p
                       /\ \A i \in LinesBy(file.lines, j1) : RanBefore(i, p)
                       /\ \A g \in HelpersOf(j2) : HelperRanBefore(g, p)
                  /\ rt.pending = {} => Cardinality(ActorCalls(k2)) = 1

\* Nested joins have run to the end, the producer that only the outer join
\* waits on having arrived before the inner join fired ...
C28_Witness ==
  /\ pc = "event_loop" /\ rt.pending = {} /\ Acyclic
  /\ \E j1, j2 \in UserActs : \E s \in SlotIds :
       /\ NestedOn(j2, j1, s)
       /\ \A k2 \in ActorsOf(j2) : Cardinality(ActorCalls(k2)) = 1
       /\ \E g \in HelpersOf(j2) : \E k1 \in ActorsOf(j1) :
            /\ tpl.actions[g].need # s
            /\ \A q \in ActorCalls(k1) : HelperRanBefore(g, q)

\* ... and having arrived after it.
C28_WitnessOuterLast ==
  /\ pc = "event_loop" /\ rt.pending = {} /\ Acyclic
  /\ \E j1, j2 \in UserActs : \E s \in SlotIds :
       /\ NestedOn(j2, j1, s)
       /\ \E g \in HelpersOf(j2) : \E k1 \in ActorsOf(j1) :
            /\ tpl.actions[g].need # s
            /\ \A q \in ActorCalls(k1) : ~HelperRanBefore(g, q)
            /\ ActorCalls(k1) # {}
----------------------------------------------------------------------------
(* C29: a cycle of two.  When two actions each wait on one slot, the       *)
(* output of the other's instance, resolve_acts resolves their bindings    *)
(* without error and queues each on the other's output; neither is a root, *)
(* and no line of either is ever in the line sequence, during emission, in *)
(* the written file or at run time.  The graph of such a cycle beside one  *)
(* root compiles without error in every order of its use-sites and the     *)
(* written program is the empty line and the line of the root.             *)

CycleOfTwo(a, b) ==
  /\ a # b
  /\ Scheduled(a) /\ Scheduled(b)
  /\ Len(tpl.actions[a].needs) = 1 /\ Len(tpl.actions[b].needs) = 1
  /\ tpl.slots[tpl.actions[a].needs[1]].inst = tpl.actions[b].inst
  /\ tpl.slots[tpl.actions[b].needs[1]].inst = tpl.actions[a].inst

Texts(L) == [i \in 1..Len(L) |-> L[i].text]

C29_CycleDropped ==
  /\ \A a, b \in UserActs :
       CycleOfTwo(a, b) =>
         /\ \A w \in Range(tpl.actions[a].wait) : Resolved(w).is # "null"
         /\ a \notin Range(tpl.roots)
         /\ Count(tpl.slots[tpl.actions[a].needs[1]].queued, a) = 1
         /\ \A s \in SlotIds \ {tpl.actions[a].needs[1]} :
              a \notin Range(tpl.slots[s].queued)
         /\ LinesBy(tpl.lines, a) = {}
         /\ LinesBy(file.lines, a) = {}
         /\ \A i \in 1..Len(tpl.lines) : tpl.lines[i].parent # a
         /\ ~Acyclic
  /\ ast \in Reorderings(CycleAst) =>
       /\ Ok(tpl) /\ pc # "exit"
       /\ ResolveActsDone => \E a, b \in UserActs : CycleOfTwo(a, b)
       /\ file.written =>
            Texts(file.lines) = <<"", "console.log(\"hello\");">>
       /\ pc = "event_loop" =>
            rt.pending = {} /\ Len(rt.trace) = 2

\* The program of a graph with such a cycle was written and has run.
C29_Witness ==
  /\ pc = "event_loop"
  /\ ast \in Reorderings(CycleAst)
  /\ \E a, b \in UserActs : CycleOfTwo(a, b)
  /\ Len(file.lines) = 2
=============================================================================
